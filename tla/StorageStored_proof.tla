------------------------ MODULE StorageStored_proof ------------------------
(***************************************************************************)
(* Proofs about what a restart would load in Storage.tla, as long as the   *)
(* logs load: it is what the shadow holds once all threads are idle, and   *)
(* it never loses a settled property.                                      *)
(***************************************************************************)
EXTENDS Storage_proof

(* Two loads of the same records, the first of which began with nothing:   *)
(* unless it fails the other does not, it restores no other property, and  *)
(* of each at least one value.                                             *)
Together(a, b) ==
  a.end # "failed" =>
    /\ b.end = a.end /\ a.objs \subseteq b.objs
    /\ DOMAIN a.props \subseteq DOMAIN b.props
    /\ \A k \in DOMAIN a.props : \E g \in Group : a.props[k][g] = b.props[k][g]

Agreed(a, b, k, g) ==
  k \in DOMAIN a.props /\ k \in DOMAIN b.props /\ a.props[k][g] = b.props[k][g]

\* What one record makes of loaded properties.
Restored(s, t, r) ==
  /\ r.type = "torn" => t.props = s.props /\ t.objs = s.objs \cup {r.dev} /\ t.end = "stopped"
  /\ r.type = "propertyGone" =>
       /\ t.objs = s.objs \cup {r.key[1]} /\ t.end = "ok"
       /\ DOMAIN t.props = DOMAIN s.props \ {r.key}
       /\ \A k \in DOMAIN t.props : t.props[k] = s.props[k]
  /\ r.type = "deviceGone" /\ r.dev \in s.objs =>
       /\ t.objs = s.objs \ {r.dev} /\ t.end = "ok"
       /\ DOMAIN t.props = {k \in DOMAIN s.props : k[1] # r.dev}
       /\ \A k \in DOMAIN t.props : t.props[k] = s.props[k]
  /\ r.type = "deviceGone" /\ r.dev \notin s.objs => t.props = s.props /\ t.end = "failed"
  /\ r.type = "set" =>
       /\ t.objs = s.objs \cup {r.key[1]} /\ t.end = "ok"
       /\ DOMAIN t.props = DOMAIN s.props \cup {r.key}
       /\ \A k \in DOMAIN s.props \ {r.key} : t.props[k] = s.props[k]
       /\ t.props[r.key][r.group] = r.value
       /\ \A g \in Group : g # r.group =>
            t.props[r.key][g] = IF r.key \in DOMAIN s.props THEN s.props[r.key][g] ELSE r.value

LEMMA ApplyRestores ==
  ASSUME NEW s \in Loaded, NEW r \in Record
  PROVE  /\ s.props \in Props /\ Apply(s, r).props \in Props /\ Apply(s, r) \in Loaded
         /\ s.end # "ok" => Apply(s, r) = s
         /\ s.end = "ok" => Restored(s, Apply(s, r), r)
<1>1. s.props \in Props /\ Apply(s, r).props \in Props /\ Apply(s, r) \in Loaded
  BY ApplyTyped DEF Loaded
<1>2. r.type \in {"set", "propertyGone", "deviceGone", "torn"}
      /\ (r.type = "set" => r.key \in Key /\ r.group \in Group /\ r.value \in Value)
  BY RecordIs
<1>3. CASE s.end # "ok"
  BY <1>1, <1>3, ApplyIs
<1>4. CASE s.end = "ok" /\ r.type = "torn"
  <2>1. Apply(s, r) = [objs |-> s.objs \cup {r.dev}, props |-> s.props, end |-> "stopped"]
    BY <1>4, ApplyIs
  <2> QED
    BY <1>1, <1>4, <2>1 DEF Restored
<1>5. CASE s.end = "ok" /\ r.type = "propertyGone"
  <2>0. Apply(s, r) = [objs |-> s.objs \cup {r.key[1]},
                       props |-> Restrict(s.props, DOMAIN s.props \ {r.key}), end |-> "ok"]
    BY <1>5, ApplyIs
  <2>1. /\ Apply(s, r).props = Restrict(s.props, DOMAIN s.props \ {r.key}) /\ Apply(s, r).end = "ok"
        /\ Apply(s, r).objs = s.objs \cup {r.key[1]}
    BY <2>0
  <2>2. /\ DOMAIN Apply(s, r).props = DOMAIN s.props \ {r.key}
        /\ \A k \in DOMAIN Apply(s, r).props : Apply(s, r).props[k] = s.props[k]
    BY <1>1, <2>1, RestrictedIs
  <2> QED
    BY <1>1, <1>5, <2>1, <2>2 DEF Restored
<1>6. CASE s.end = "ok" /\ r.type = "set"
  <2>0. Apply(s, r) = [objs |-> s.objs \cup {r.key[1]}, props |-> Updated(s.props, r), end |-> "ok"]
    BY <1>6, ApplyIs
  <2>1. /\ Apply(s, r).props = Updated(s.props, r) /\ Apply(s, r).end = "ok"
        /\ Apply(s, r).objs = s.objs \cup {r.key[1]}
    BY <2>0
  <2>2. /\ DOMAIN Updated(s.props, r) = DOMAIN s.props \cup {r.key}
        /\ \A k \in DOMAIN s.props \ {r.key} : Updated(s.props, r)[k] = s.props[k]
        /\ Updated(s.props, r)[r.key][r.group] = r.value
        /\ \A g \in Group : g # r.group =>
             Updated(s.props, r)[r.key][g] = IF r.key \in DOMAIN s.props THEN s.props[r.key][g] ELSE r.value
    BY <1>1, <1>2, <1>6, UpdatedIs
  <2> QED
    BY <1>1, <1>6, <2>1, <2>2 DEF Restored
<1>7. CASE s.end = "ok" /\ r.type = "deviceGone" /\ r.dev \in s.objs
  <2>0. Apply(s, r) = [objs |-> s.objs \ {r.dev},
                       props |-> Restrict(s.props, DOMAIN s.props \ KeysOf(r.dev, s.props)), end |-> "ok"]
    BY <1>7, ApplyIs
  <2>1. /\ Apply(s, r).props = Restrict(s.props, DOMAIN s.props \ KeysOf(r.dev, s.props))
        /\ Apply(s, r).end = "ok" /\ Apply(s, r).objs = s.objs \ {r.dev}
    BY <2>0
  <2>2. /\ DOMAIN Apply(s, r).props = DOMAIN s.props \ KeysOf(r.dev, s.props)
        /\ \A k \in DOMAIN Apply(s, r).props : Apply(s, r).props[k] = s.props[k]
    BY <1>1, <2>1, RestrictedIs
  <2>3. DOMAIN Apply(s, r).props = {k \in DOMAIN s.props : k[1] # r.dev}
    BY <2>2 DEF KeysOf
  <2> QED
    BY <1>1, <1>7, <2>1, <2>2, <2>3 DEF Restored
<1>8. CASE s.end = "ok" /\ r.type = "deviceGone" /\ r.dev \notin s.objs
  <2>1. Apply(s, r) = [objs |-> s.objs, props |-> s.props, end |-> "failed"]
    BY <1>8, ApplyIs
  <2> QED
    BY <1>1, <1>8, <2>1 DEF Restored
<1> QED
  BY <1>2, <1>3, <1>4, <1>5, <1>6, <1>7, <1>8

\* How a load ends is for good.
LEMMA EndStays ==
  ASSUME NEW s \in Loaded, NEW r \in Record
  PROVE  /\ Apply(s, r).end # "failed" => s.end # "failed"
         /\ Apply(s, r).end = "ok" <=> s.end = "ok" /\ Apply(s, r).end # "failed" /\ ~IsTorn(r)
         /\ r.type # "deviceGone" /\ s.end # "failed" => Apply(s, r).end # "failed"
         /\ ~IsTorn(r) /\ s.end # "stopped" => Apply(s, r).end # "stopped"
<1>1. r.type \in {"set", "propertyGone", "deviceGone", "torn"} /\ s.end \in {"ok", "stopped", "failed"}
  BY RecordIs DEF Loaded
<1>2. CASE s.end # "ok"
  BY <1>1, <1>2, ApplyRestores
<1>3. CASE s.end = "ok"
  BY <1>1, <1>3, ApplyRestores DEF Restored, IsTorn
<1> QED
  BY <1>2, <1>3

LEMMA TogetherNext ==
  ASSUME NEW a \in Loaded, NEW b \in Loaded, NEW r \in Record, Together(a, b)
  PROVE  Together(Apply(a, r), Apply(b, r))
<1> DEFINE x == Apply(a, r)
           y == Apply(b, r)
<1> SUFFICES ASSUME x.end # "failed" PROVE Together(x, y)
  BY DEF Together
<1>1. a.end # "failed" /\ a.end \in {"ok", "stopped", "failed"}
  BY EndStays DEF Loaded
<1>2. /\ b.end = a.end /\ a.objs \subseteq b.objs
      /\ DOMAIN a.props \subseteq DOMAIN b.props
      /\ \A k \in DOMAIN a.props : \E g \in Group : a.props[k][g] = b.props[k][g]
  BY <1>1 DEF Together
<1>3. CASE a.end # "ok"
  <2>1. x = a /\ y = b
    BY <1>2, <1>3, ApplyRestores
  <2> QED
    BY <2>1
<1>4. CASE a.end = "ok"
  <2>1. Restored(a, x, r) /\ Restored(b, y, r)
    BY <1>2, <1>4, ApplyRestores
  <2>2. r.type = "set" => r.group \in Group
    BY RecordIs
  <2> HIDE DEF x, y
  <2>3. CASE r.type = "torn"
    BY <1>2, <2>1, <2>3 DEF Together, Restored
  <2>4. CASE r.type = "propertyGone"
    BY <1>2, <2>1, <2>4 DEF Together, Restored
  <2>5. CASE r.type = "deviceGone"
    <3>1. r.dev \in a.objs /\ r.dev \in b.objs
      BY <1>2, <2>1, <2>5 DEF Restored
    <3> QED
      BY <1>2, <2>1, <2>5, <3>1 DEF Together, Restored
  <2>6. CASE r.type = "set"
    <3>1. /\ DOMAIN x.props = DOMAIN a.props \cup {r.key}
          /\ \A k \in DOMAIN a.props \ {r.key} : x.props[k] = a.props[k]
          /\ x.props[r.key][r.group] = r.value
          /\ x.objs = a.objs \cup {r.key[1]} /\ x.end = "ok"
      BY <2>1, <2>6 DEF Restored
    <3>2. /\ DOMAIN y.props = DOMAIN b.props \cup {r.key}
          /\ \A k \in DOMAIN b.props \ {r.key} : y.props[k] = b.props[k]
          /\ y.props[r.key][r.group] = r.value
          /\ y.objs = b.objs \cup {r.key[1]} /\ y.end = "ok"
      BY <2>1, <2>6 DEF Restored
    <3>3. ASSUME NEW k \in DOMAIN x.props PROVE \E g \in Group : x.props[k][g] = y.props[k][g]
      <4>1. CASE k = r.key
        BY <2>2, <2>6, <3>1, <3>2, <4>1
      <4>2. CASE k # r.key
        BY <1>2, <3>1, <3>2, <4>2
      <4> QED
        BY <4>1, <4>2
    <3> QED
      BY <1>2, <3>1, <3>2, <3>3 DEF Together
  <2> QED
    BY <2>3, <2>4, <2>5, <2>6, RecordIs
<1> QED
  BY <1>3, <1>4

LEMMA AgreedNext ==
  ASSUME NEW a \in Loaded, NEW b \in Loaded, NEW r \in Record, Together(a, b), Apply(a, r).end # "failed",
         NEW k \in Key, NEW g \in Group
  PROVE  /\ Agreed(a, b, k, g) /\ ~Erases(r, k) => Agreed(Apply(a, r), Apply(b, r), k, g)
         /\ a.end = "ok" /\ r.type = "set" /\ r.key = k /\ r.group = g =>
              Agreed(Apply(a, r), Apply(b, r), k, g)
<1> DEFINE x == Apply(a, r)
           y == Apply(b, r)
<1>1. a.end \in {"ok", "stopped"} /\ b.end = a.end /\ a.objs \subseteq b.objs
  BY EndStays DEF Together, Loaded
<1>2. CASE a.end # "ok"
  BY <1>1, <1>2, ApplyRestores
<1>3. CASE a.end = "ok"
  <2>1. Restored(a, x, r) /\ Restored(b, y, r) /\ x.end # "failed"
    BY <1>1, <1>3, ApplyRestores
  <2> HIDE DEF x, y
  <2>2. CASE r.type = "torn"
    BY <2>1, <2>2 DEF Agreed, Restored, x, y
  <2>3. CASE r.type = "propertyGone"
    <3>1. (k # r.key /\ Agreed(a, b, k, g)) => Agreed(x, y, k, g)
      BY <2>1, <2>3 DEF Agreed, Restored
    <3> QED
      BY <2>3, <3>1 DEF Erases, x, y
  <2>4. CASE r.type = "deviceGone"
    <3>1. r.dev \in a.objs /\ r.dev \in b.objs
      BY <1>1, <2>1, <2>4 DEF Restored
    <3>2. (k[1] # r.dev /\ Agreed(a, b, k, g)) => Agreed(x, y, k, g)
      BY <2>1, <2>4, <3>1 DEF Agreed, Restored
    <3> QED
      BY <2>4, <3>2 DEF Erases, x, y
  <2>5. CASE r.type = "set"
    <3>1. /\ DOMAIN x.props = DOMAIN a.props \cup {r.key}
          /\ \A j \in DOMAIN a.props \ {r.key} : x.props[j] = a.props[j]
          /\ x.props[r.key][r.group] = r.value
          /\ \A h \in Group : h # r.group =>
               x.props[r.key][h] = IF r.key \in DOMAIN a.props THEN a.props[r.key][h] ELSE r.value
      BY <2>1, <2>5 DEF Restored
    <3>2. /\ DOMAIN y.props = DOMAIN b.props \cup {r.key}
          /\ \A j \in DOMAIN b.props \ {r.key} : y.props[j] = b.props[j]
          /\ y.props[r.key][r.group] = r.value
          /\ \A h \in Group : h # r.group =>
               y.props[r.key][h] = IF r.key \in DOMAIN b.props THEN b.props[r.key][h] ELSE r.value
      BY <2>1, <2>5 DEF Restored
    <3>3. CASE r.key = k /\ r.group = g
      BY <3>1, <3>2, <3>3 DEF Agreed, x, y
    <3>4. CASE r.key = k /\ r.group # g
      BY <3>1, <3>2, <3>4 DEF Agreed, x, y
    <3>5. CASE r.key # k
      BY <3>1, <3>2, <3>5 DEF Agreed, x, y
    <3> QED
      BY <3>3, <3>4, <3>5
  <2> QED
    BY <2>2, <2>3, <2>4, <2>5, RecordIs
<1> QED
  BY <1>1, <1>2, <1>3
\* What a load passes through.
LEMMA ReadTurn ==
  ASSUME NEW s \in Loaded, NEW rec \in Seq(Record), NEW f, Reads(f, s, rec), NEW n \in 0 .. Len(rec) - 1
  PROVE  /\ Len(rec) \in Nat /\ n + 1 \in 1 .. Len(rec) /\ n \in 0 .. Len(rec) /\ n + 1 \in 0 .. Len(rec)
         /\ f[n] \in Loaded /\ rec[n + 1] \in Record
         /\ f[n + 1] = Apply(f[n], rec[n + 1])
<1>1. Len(rec) \in Nat /\ \A i \in 1 .. Len(rec) : rec[i] \in Record
  BY LenProperties, ElementOfSeq
<1>2. n + 1 \in 1 .. Len(rec) /\ n \in 0 .. Len(rec) /\ n + 1 \in 0 .. Len(rec) /\ (n + 1) - 1 = n
  BY <1>1
<1>3. \A i \in 0 .. Len(rec) : f[i] \in Loaded
  BY ReadsTyped
<1> QED
  BY <1>1, <1>2, <1>3 DEF Reads

\* Only a torn record stops a load, only a deletion makes it fail.
LEMMA ReadEnds ==
  ASSUME NEW s \in Loaded, NEW rec \in Seq(Record), NEW f, Reads(f, s, rec)
  PROVE  \A n \in 0 .. Len(rec) :
           /\ (\A j \in 1 .. n : ~IsTorn(rec[j])) => f[n].end # "stopped"
           /\ (\A j \in 1 .. n : rec[j].type # "deviceGone") => f[n].end # "failed"
<1> DEFINE T == {n \in 0 .. Len(rec) :
                   /\ (\A j \in 1 .. n : ~IsTorn(rec[j])) => f[n].end # "stopped"
                   /\ (\A j \in 1 .. n : rec[j].type # "deviceGone") => f[n].end # "failed"}
<1>1. Len(rec) \in Nat
  BY LenProperties
<1>2. 0 \in T
  <2>1. f[0] = [objs |-> s.objs, props |-> s.props, end |-> "ok"]
    BY StartTyped DEF Reads
  <2> QED
    BY <1>1, <2>1
<1>3. ASSUME NEW n \in 0 .. Len(rec) - 1, n \in T PROVE n + 1 \in T
  <2>1. /\ n + 1 \in 1 .. Len(rec) /\ n \in 0 .. Len(rec) /\ n + 1 \in 0 .. Len(rec)
        /\ f[n] \in Loaded /\ rec[n + 1] \in Record /\ f[n + 1] = Apply(f[n], rec[n + 1])
    BY ReadTurn
  <2>2. n + 1 \in 1 .. (n + 1) /\ \A j \in 1 .. n : j \in 1 .. (n + 1)
    BY <1>1
  <2>3. /\ (\A j \in 1 .. n : ~IsTorn(rec[j])) => f[n].end # "stopped"
        /\ (\A j \in 1 .. n : rec[j].type # "deviceGone") => f[n].end # "failed"
    BY <1>3
  <2>4. ASSUME \A j \in 1 .. (n + 1) : ~IsTorn(rec[j]) PROVE f[n + 1].end # "stopped"
    BY <2>1, <2>2, <2>3, <2>4, EndStays
  <2>5. ASSUME \A j \in 1 .. (n + 1) : rec[j].type # "deviceGone" PROVE f[n + 1].end # "failed"
    BY <2>1, <2>2, <2>3, <2>5, EndStays
  <2> QED
    BY <2>1, <2>4, <2>5
<1> HIDE DEF T
<1>4. 0 .. Len(rec) \subseteq T
  BY <1>1, <1>2, <1>3, StepByStep
<1> QED
  BY <1>4 DEF T

LEMMA LoadEnds ==
  ASSUME NEW s \in Loaded, NEW log \in Log
  PROVE  /\ Whole(log) => LoadFrom(s, log).end # "stopped"
         /\ ~HasDeletion(RecordsOf(log)) => LoadFrom(s, log).end # "failed"
<1> DEFINE rec == RecordsOf(log)
<1>1. rec \in Seq(Record)
  BY RecordsTyped
<1>2. PICK f : Reads(f, s, rec) /\ LoadFrom(s, log) = f[Len(rec)]
  BY <1>1, LoadReads
<1>3. /\ Whole(log) => \A j \in DOMAIN rec : ~IsTorn(rec[j])
      /\ ~HasDeletion(rec) => \A j \in DOMAIN rec : rec[j].type # "deviceGone"
  BY DEF Whole, Clean, HasDeletion
<1> HIDE DEF rec
<1>4. Len(rec) \in 0 .. Len(rec) /\ DOMAIN rec = 1 .. Len(rec)
  BY <1>1, LenProperties
<1>5. /\ (\A j \in 1 .. Len(rec) : ~IsTorn(rec[j])) => f[Len(rec)].end # "stopped"
      /\ (\A j \in 1 .. Len(rec) : rec[j].type # "deviceGone") => f[Len(rec)].end # "failed"
  BY <1>1, <1>2, <1>4, ReadEnds
<1>6. /\ Whole(log) => LoadFrom(s, log).end # "stopped"
      /\ ~HasDeletion(rec) => LoadFrom(s, log).end # "failed"
  BY <1>2, <1>3, <1>4, <1>5
<1> QED
  BY <1>6 DEF rec

\* Two loads of the same records.
BothRead(a, b, rec, f, h) ==
  /\ a \in Loaded /\ b \in Loaded /\ a.objs = {} /\ DOMAIN a.props = {}
  /\ rec \in Seq(Record) /\ Reads(f, a, rec) /\ Reads(h, b, rec)

LEMMA BothTurn ==
  ASSUME NEW a, NEW b, NEW rec, NEW f, NEW h, BothRead(a, b, rec, f, h), NEW n \in 0 .. Len(rec) - 1
  PROVE  /\ Len(rec) \in Nat /\ n + 1 \in 1 .. Len(rec) /\ n \in 0 .. Len(rec) /\ n + 1 \in 0 .. Len(rec)
         /\ f[n] \in Loaded /\ h[n] \in Loaded /\ rec[n + 1] \in Record
         /\ f[n + 1] = Apply(f[n], rec[n + 1]) /\ h[n + 1] = Apply(h[n], rec[n + 1])
<1>1. /\ Len(rec) \in Nat /\ n + 1 \in 1 .. Len(rec) /\ n \in 0 .. Len(rec) /\ n + 1 \in 0 .. Len(rec)
      /\ f[n] \in Loaded /\ rec[n + 1] \in Record /\ f[n + 1] = Apply(f[n], rec[n + 1])
  BY ReadTurn DEF BothRead
<1>2. h[n] \in Loaded /\ h[n + 1] = Apply(h[n], rec[n + 1])
  BY ReadTurn DEF BothRead
<1> QED
  BY <1>1, <1>2

LEMMA ReadTogether ==
  ASSUME NEW a, NEW b, NEW rec, NEW f, NEW h, BothRead(a, b, rec, f, h)
  PROVE  \A n \in 0 .. Len(rec) : Together(f[n], h[n])
<1> DEFINE T == {n \in 0 .. Len(rec) : Together(f[n], h[n])}
<1>1. Len(rec) \in Nat
  BY LenProperties DEF BothRead
<1>2. 0 \in T
  <2>1. f[0] = [objs |-> a.objs, props |-> a.props, end |-> "ok"]
        /\ h[0] = [objs |-> b.objs, props |-> b.props, end |-> "ok"]
    BY StartTyped DEF BothRead, Reads
  <2>2. f[0].objs = {} /\ DOMAIN f[0].props = {} /\ f[0].end = "ok" /\ h[0].end = "ok"
    BY <2>1 DEF BothRead
  <2>3. Together(f[0], h[0])
    BY <2>2 DEF Together
  <2> QED
    BY <1>1, <2>3
<1>3. ASSUME NEW n \in 0 .. Len(rec) - 1, n \in T PROVE n + 1 \in T
  <2>1. /\ n + 1 \in 1 .. Len(rec) /\ n \in 0 .. Len(rec) /\ n + 1 \in 0 .. Len(rec)
        /\ f[n] \in Loaded /\ h[n] \in Loaded /\ rec[n + 1] \in Record
        /\ f[n + 1] = Apply(f[n], rec[n + 1]) /\ h[n + 1] = Apply(h[n], rec[n + 1])
    BY BothTurn
  <2>2. Together(f[n], h[n])
    BY <1>3
  <2>3. Together(f[n + 1], h[n + 1])
    BY <2>1, <2>2, TogetherNext
  <2> QED
    BY <2>1, <2>3
<1> HIDE DEF T
<1>4. 0 .. Len(rec) \subseteq T
  BY <1>1, <1>2, <1>3, StepByStep
<1> QED
  BY <1>4 DEF T

\* Record i gives property k a value that nothing after it deletes.
LastsFrom(rec, i, k, g) ==
  /\ i \in 1 .. Len(rec) /\ k \in Key /\ g \in Group
  /\ rec[i].type = "set" /\ rec[i].key = k /\ rec[i].group = g
  /\ \A j \in 1 .. i : ~IsTorn(rec[j])
  /\ \A j \in 1 .. Len(rec) : j > i => rec[j].type = "set" \/ k \notin AboutRecord(rec[j])

LEMMA SparedIs ==
  ASSUME NEW r \in Record, NEW k \in Key, r.type = "set" \/ k \notin AboutRecord(r)
  PROVE  ~Erases(r, k)
<1>1. r.type = "propertyGone" => AboutRecord(r) = {r.key}
  BY DEF AboutRecord
<1>2. r.type = "deviceGone" => AboutRecord(r) = {j \in Key : j[1] = r.dev}
  BY DEF AboutRecord
<1> QED
  BY <1>1, <1>2 DEF Erases

LEMMA ReadAgreed ==
  ASSUME NEW a, NEW b, NEW rec, NEW f, NEW h, BothRead(a, b, rec, f, h),
         NEW i, NEW k, NEW g, LastsFrom(rec, i, k, g), f[Len(rec)].end # "failed"
  PROVE  Agreed(f[Len(rec)], h[Len(rec)], k, g)
<1> DEFINE T == {n \in 0 .. Len(rec) : f[n].end # "failed" /\ n >= i => Agreed(f[n], h[n], k, g)}
<1>1. Len(rec) \in Nat /\ i \in 1 .. Len(rec) /\ k \in Key /\ g \in Group
  BY LenProperties DEF BothRead, LastsFrom
<1>2. 0 \in T
  BY <1>1
<1>3. ASSUME NEW n \in 0 .. Len(rec) - 1, n \in T PROVE n + 1 \in T
  <2> DEFINE r == rec[n + 1]
  <2>1. /\ n + 1 \in 1 .. Len(rec) /\ n \in 0 .. Len(rec) /\ n + 1 \in 0 .. Len(rec)
        /\ f[n] \in Loaded /\ h[n] \in Loaded /\ r \in Record
        /\ f[n + 1] = Apply(f[n], r) /\ h[n + 1] = Apply(h[n], r)
    BY BothTurn
  <2> HIDE DEF r
  <2> SUFFICES ASSUME f[n + 1].end # "failed", n + 1 >= i PROVE Agreed(f[n + 1], h[n + 1], k, g)
    BY <2>1
  <2>2. Together(f[n], h[n]) /\ f[n].end # "failed" /\ Apply(f[n], r).end # "failed"
    BY <2>1, ReadTogether, EndStays
  <2>3. CASE n + 1 = i
    <3>1. r.type = "set" /\ r.key = k /\ r.group = g /\ \A j \in 1 .. n : ~IsTorn(rec[j])
      BY <1>1, <2>3 DEF LastsFrom, r
    <3>2. f[n].end # "stopped"
      BY <2>1, <3>1, ReadEnds DEF BothRead
    <3>3. f[n].end = "ok"
      BY <2>1, <2>2, <3>2 DEF Loaded
    <3>4. Agreed(Apply(f[n], r), Apply(h[n], r), k, g)
      BY <1>1, <2>1, <2>2, <3>1, <3>3, AgreedNext
    <3> QED
      BY <2>1, <3>4
  <2>4. CASE n + 1 > i
    <3>1. Agreed(f[n], h[n], k, g)
      BY <1>1, <1>3, <2>2, <2>4
    <3>2. r.type = "set" \/ k \notin AboutRecord(r)
      BY <2>1, <2>4 DEF LastsFrom, r
    <3>3. ~Erases(r, k)
      BY <1>1, <2>1, <3>2, SparedIs
    <3>4. Agreed(Apply(f[n], r), Apply(h[n], r), k, g)
      BY <1>1, <2>1, <2>2, <3>1, <3>3, AgreedNext
    <3> QED
      BY <2>1, <3>4
  <2> QED
    BY <1>1, <2>1, <2>3, <2>4
<1> HIDE DEF T
<1>4. 0 .. Len(rec) \subseteq T
  BY <1>1, <1>2, <1>3, StepByStep
<1>5. Len(rec) \in 0 .. Len(rec) /\ Len(rec) >= i
  BY <1>1
<1> QED
  BY <1>4, <1>5 DEF T

LEMMA LoadsTogether ==
  ASSUME NEW t \in Loaded, NEW log \in Log
  PROVE  /\ Together(LoadFrom(Blank, log), LoadFrom(t, log))
         /\ \A k \in Key, g \in Group : LiveIn(RecordsOf(log), k, g) /\ LoadFrom(Blank, log).end # "failed" =>
              Agreed(LoadFrom(Blank, log), LoadFrom(t, log), k, g)
<1> DEFINE rec == RecordsOf(log)
<1>1. rec \in Seq(Record)
  BY RecordsTyped
<1> HIDE DEF rec
<1>2. Len(rec) \in Nat /\ DOMAIN rec = 1 .. Len(rec)
  BY <1>1, LenProperties
<1>3. PICK f : Reads(f, Blank, rec) /\ LoadFrom(Blank, log) = f[Len(rec)]
  BY <1>1, LoadReads DEF rec
<1>4. PICK h : Reads(h, t, rec) /\ LoadFrom(t, log) = h[Len(rec)]
  BY <1>1, LoadReads DEF rec
<1>5. BothRead(Blank, t, rec, f, h)
  BY <1>1, <1>3, <1>4, BlankTyped DEF BothRead
<1>6. Len(rec) \in 0 .. Len(rec)
  BY <1>2
<1>7. Together(f[Len(rec)], h[Len(rec)])
  BY <1>5, <1>6, ReadTogether
<1>8. ASSUME NEW k \in Key, NEW g \in Group, LiveIn(rec, k, g), f[Len(rec)].end # "failed"
      PROVE  Agreed(f[Len(rec)], h[Len(rec)], k, g)
  <2>1. PICK i \in DOMAIN rec :
          /\ rec[i].type = "set" /\ rec[i].key = k /\ rec[i].group = g
          /\ \A j \in 1 .. i : ~IsTorn(rec[j])
          /\ \A j \in DOMAIN rec : j > i => rec[j].type = "set" \/ k \notin AboutRecord(rec[j])
    BY <1>8 DEF LiveIn
  <2>2. LastsFrom(rec, i, k, g)
    BY <1>2, <2>1 DEF LastsFrom
  <2> QED
    BY <1>5, <1>8, <2>2, ReadAgreed
<1> QED
  BY <1>3, <1>4, <1>7, <1>8 DEF rec
----------------------------------------------------------------------------
(* What is in the storage handler's queue after a step was there, or is    *)
(* what a thread sends.                                                    *)
LEMMA MessagesAfter ==
  ASSUME Sound, Running, NEW m \in Messages("sto")'
  PROVE  \/ m \in Messages("sto")
         \/ \E t \in Thread : /\ t # "sto" /\ SendMessage(t) /\ m = Head(todo[t]).msg
                              /\ Head(todo[t]) \in Steps(t) /\ Head(todo[t]).op = "send"
                              /\ StepFields(t, Head(todo[t]))
<1>1. CASE queue'["sto"] = queue["sto"]
  BY <1>1 DEF Messages
<1>2. ASSUME NEW t \in Thread, SendMessage(t)
      PROVE  \/ m \in Messages("sto")
             \/ /\ t # "sto" /\ m = Head(todo[t]).msg
                /\ Head(todo[t]) \in Steps(t) /\ Head(todo[t]).op = "send"
                /\ StepFields(t, Head(todo[t]))
  <2>1. CASE t = "sto"
    <3>1. queue'["sto"] = queue["sto"]
      BY <1>2, <2>1, SendSound
    <3> QED
      BY <3>1 DEF Messages
  <2>2. CASE t # "sto"
    <3>1. Messages("sto")' = Messages("sto") \cup {Head(todo[t]).msg}
      BY <1>2, <2>2, SentIs
    <3>2. Head(todo[t]) \in Steps(t) /\ Head(todo[t]).op = "send" /\ StepFields(t, Head(todo[t]))
      BY <1>2, SendSound
    <3> QED
      BY <2>2, <3>1, <3>2
  <2> QED
    BY <2>1, <2>2
<1>3. CASE StoReceive \/ DumpComplete
  BY <1>3, StoReceiveSound, DumpCompleteSound
<1>4. CASE CallStep
  <2>1. queue' = queue
    BY <1>4, CallsAreClients DEF ByAClient
  <2> QED
    BY <1>1, <2>1
<1>5. CASE ThreadStep
  <2>1. \/ queue' = queue
        \/ \E t \in Thread : SendMessage(t)
    BY <1>5, AnnounceSound, SubscribeSound, NotifySound, ClearSound, DestroySound DEF ThreadStep
  <2> QED
    BY <1>1, <1>2, <2>1
<1>6. CASE WriteRecord \/ Rename \/ NewLog
  BY <1>1, <1>6, WriteRecordSound, RenameSound, NewLogSound
<1>7. CASE DumpStep
  <2>1. queue'["sto"] = queue["sto"]
    BY <1>7, LsdReceiveSound, ScanSound DEF DumpStep
  <2> QED
    BY <1>1, <2>1
<1> QED
  BY <1>3, <1>4, <1>5, <1>6, <1>7 DEF Running, StorageStep

LEMMA StartIsEmpty ==
  ASSUME Sound, StartStep
  PROVE  /\ Messages("sto")' = {} /\ \A t \in Thread : Steps(t)' = {}
         /\ phase # "run" \/ phase' # "run"
<1>1. CASE LoadArchive
  <2>1. /\ \A t \in Thread : Steps(t)' = {}
        /\ queue' = queue /\ queue["sto"] = <<>> /\ phase = "archive"
    BY <1>1, LoadArchiveSound
  <2> QED
    BY <2>1, NoElements DEF Messages
<1>2. CASE LoadCurrent
  <2>1. /\ \A t \in Thread : Steps(t)' = {}
        /\ queue'["sto"] = <<>> /\ phase = "current"
    BY <1>2, LoadCurrentSound
  <2> QED
    BY <2>1, NoElements DEF Messages
<1>3. CASE Restart
  <2>1. (\A t \in Thread : Steps(t)' = {}) /\ queue'["sto"] = <<>> /\ phase' # "run"
    BY <1>3, RestartSound
  <2> QED
    BY <2>1, NoElements DEF Messages
<1> QED
  BY <1>1, <1>2, <1>3 DEF StartStep

----------------------------------------------------------------------------
(* The order of the storage handler's steps.                               *)

\* All but the last of the steps write records.
WritesFirst(q) == \A i \in DOMAIN q : q[i].op # "record" => i = Len(q)

\* A log is created only when there is none: nothing is lost.
Consolidating ==
  /\ WritesFirst(todo["sto"])
  /\ NewLogStep \in Steps("sto") => cur = NoLog /\ todo["sto"] = <<NewLogStep>>

LEMMA WritesFirstAfter ==
  ASSUME NEW S, NEW q \in Seq(S), q # <<>>, WritesFirst(q)
  PROVE  /\ WritesFirst(Tail(q))
         /\ Head(q).op # "record" => Tail(q) = <<>>
<1>1. /\ Len(q) \in Nat \ {0} /\ DOMAIN q = 1 .. Len(q) /\ Head(q) = q[1]
      /\ Len(Tail(q)) = Len(q) - 1 /\ DOMAIN Tail(q) = 1 .. (Len(q) - 1)
      /\ \A i \in 1 .. (Len(q) - 1) : Tail(q)[i] = q[i + 1]
      /\ Tail(q) \in Seq(S)
  BY FirstAndRest
<1>2. ASSUME NEW i \in DOMAIN Tail(q), Tail(q)[i].op # "record" PROVE i = Len(Tail(q))
  <2>1. i \in 1 .. (Len(q) - 1) /\ i + 1 \in DOMAIN q
    BY <1>1
  <2>2. q[i + 1].op # "record"
    BY <1>1, <1>2, <2>1
  <2>3. i + 1 = Len(q)
    BY <2>1, <2>2 DEF WritesFirst
  <2> QED
    BY <1>1, <2>1, <2>3
<1>3. ASSUME Head(q).op # "record" PROVE Tail(q) = <<>>
  <2>1. 1 \in DOMAIN q /\ q[1].op # "record"
    BY <1>1, <1>3
  <2>2. 1 = Len(q)
    BY <2>1 DEF WritesFirst
  <2>3. Len(Tail(q)) = 0
    <3>1. Len(Tail(q)) = Len(q) - 1
      BY <1>1
    <3> QED
      BY <2>2, <3>1
  <2> QED
    BY <1>1, <2>3, EmptySeq
<1> QED
  BY <1>2, <1>3 DEF WritesFirst

LEMMA HandlingWritesFirst ==
  ASSUME NEW m \in StoMessage, m.type # "dumpCompleted"
  PROVE  WritesFirst(Handling(m)) /\ NewLogStep \notin ToSet(Handling(m))
<1>1. NewLogStep \notin ToSet(Handling(m))
  BY HandlingAsksNothing DEF Asking
<1>2. CASE m.type = "delta"
  <2> DEFINE w == Writes(m)
             c == [op |-> "consolidate"]
  <2>1. m \in DeltaMessage /\ m.deltas \in Seq(Key \X Value) /\ Handling(m) = Writes(m) \o <<[op |-> "consolidate"]>>
    BY <1>2, MessageIs, HandlingIs
  <2>2. Len(m.deltas) \in Nat /\ DOMAIN m.deltas = 1 .. Len(m.deltas)
    BY <2>1, LenProperties
  <2>3. /\ w \in Seq(StoSteps) /\ Len(w) = Len(m.deltas) /\ Handling(m) = Append(w, c)
        /\ \A i \in DOMAIN m.deltas :
             w[i] = RecordStep(SetRecord(m.deltas[i][1], m.group, m.deltas[i][2]))
    BY <2>1, WritesTyped
  <2>4. ASSUME NEW i \in 1 .. Len(w) PROVE w[i].op = "record"
    <3>1. w[i] = RecordStep(SetRecord(m.deltas[i][1], m.group, m.deltas[i][2]))
      BY <2>2, <2>3
    <3> QED
      BY <3>1 DEF RecordStep
  <2>5. c \in StoSteps
    BY DEF StoSteps
  <2> HIDE DEF w, c
  <2>6. /\ Len(Append(w, c)) = Len(w) + 1 /\ DOMAIN Append(w, c) = 1 .. (Len(w) + 1) /\ Len(w) \in Nat
        /\ \A i \in 1 .. Len(w) : Append(w, c)[i] = w[i]
    BY <2>3, <2>5, OneMore
  <2>7. ASSUME NEW i \in DOMAIN Append(w, c), Append(w, c)[i].op # "record" PROVE i = Len(Append(w, c))
    BY <2>4, <2>6, <2>7
  <2> QED
    BY <1>1, <2>3, <2>7 DEF WritesFirst
<1>3. CASE m.type = "propertyDeleted"
  <2>1. Handling(m) = <<RecordStep(PropertyGone(m.key))>>
    BY <1>3, HandlingIs
  <2> QED
    BY <1>1, <2>1 DEF WritesFirst
<1>4. CASE m.type = "thingDeleted"
  <2>1. Handling(m) = <<RecordStep(DeviceGone(m.dev))>>
    BY <1>4, HandlingIs
  <2> QED
    BY <1>1, <2>1 DEF WritesFirst
<1> QED
  BY <1>2, <1>3, <1>4, MessageIs

\* The storage handler leaves its first step, and may write or rename.
LEMMA NextInOrder ==
  ASSUME Typed, Consolidating, todo["sto"] # <<>>
  PROVE  /\ todo'["sto"] = Tail(todo["sto"]) => Consolidating'
         /\ \A s : /\ Head(todo["sto"]).op # "record" /\ todo'["sto"] = <<s>> \o Tail(todo["sto"])
                   /\ s = NewLogStep => cur' = NoLog
                   => Consolidating'
<1>1. todo["sto"] \in Seq(StoSteps)
  BY StepsAre DEF Typed, TodoTyped
<1>2. /\ WritesFirst(Tail(todo["sto"])) /\ Tail(todo["sto"]) \in Seq(StoSteps)
      /\ Head(todo["sto"]).op # "record" => Tail(todo["sto"]) = <<>>
      /\ ToSet(todo["sto"]) = {Head(todo["sto"])} \cup ToSet(Tail(todo["sto"]))
  BY <1>1, WritesFirstAfter, FirstAndRest DEF Consolidating
<1>3. ASSUME todo'["sto"] = Tail(todo["sto"]) PROVE Consolidating'
  <2>1. NewLogStep \notin Steps("sto")'
    <3> SUFFICES ASSUME NewLogStep \in ToSet(Tail(todo["sto"])) PROVE FALSE
      BY <1>3 DEF Steps
    <3>1. todo["sto"] = <<NewLogStep>>
      BY <1>2 DEF Consolidating, Steps
    <3>2. Tail(todo["sto"]) = <<>>
      BY <3>1
    <3> QED
      BY <3>2, NoElements
  <2> QED
    BY <1>2, <1>3, <2>1 DEF Consolidating
<1>4. ASSUME NEW s, Head(todo["sto"]).op # "record", todo'["sto"] = <<s>> \o Tail(todo["sto"]),
             s = NewLogStep => cur' = NoLog
      PROVE  Consolidating'
  <2>1. todo'["sto"] = <<s>>
    <3>1. Tail(todo["sto"]) = <<>>
      BY <1>2, <1>4
    <3>2. <<s>> \o <<>> = <<s>>
      OBVIOUS
    <3> QED
      BY <1>4, <3>1, <3>2
  <2>2. WritesFirst(<<s>>) /\ ToSet(<<s>>) = {s}
    BY DEF WritesFirst, ToSet
  <2> QED
    BY <1>4, <2>1, <2>2 DEF Consolidating, Steps
<1> QED
  BY <1>3, <1>4

LEMMA ConsolidatingNext ==
  ASSUME Sound, Consolidating, [Next]_vars
  PROVE  Consolidating'
<1>1. Typed
  BY DEF Sound
<1>2. ASSUME todo'["sto"] = todo["sto"], cur' = cur PROVE Consolidating'
  BY <1>2 DEF Consolidating, Steps
<1>3. ASSUME todo'["sto"] = <<>> PROVE Consolidating'
  BY <1>3, NoElements DEF Consolidating, Steps, WritesFirst
<1>4. CASE UNCHANGED vars
  BY <1>2, <1>4 DEF vars, store
<1>5. CASE CallStep
  BY <1>2, <1>5, CallsAreClients, StepsAre DEF ByAClient
<1>6. CASE ThreadStep
  <2>1. PICK t \in Thread : \/ Announce(t) \/ Subscribe(t) \/ Notify(t) \/ SendMessage(t)
                            \/ ClearDevice(t) \/ DestroyObject(t)
    BY <1>6 DEF ThreadStep
  <2>2. CASE Announce(t) \/ Subscribe(t) \/ Notify(t) \/ ClearDevice(t) \/ DestroyObject(t)
    <3>1. cur' = cur /\ t \in Client /\ (todo' = todo \/ \E X : Goes(t, X))
      BY <2>2, AnnounceSound, SubscribeSound, NotifySound, ClearSound, DestroySound, StepsAre DEF SameRest
    <3>2. todo'["sto"] = todo["sto"]
      BY <3>1, StepsAre DEF Goes
    <3> QED
      BY <1>2, <3>1, <3>2
  <2>3. CASE SendMessage(t)
    <3>1. cur' = cur /\ todo[t] # <<>> /\ todo'[t] = Tail(todo[t]) /\ Goes(t, {})
      BY <2>3, SendSound DEF SameRest
    <3>2. CASE t = "sto"
      BY <1>1, <3>1, <3>2, NextInOrder
    <3>3. CASE t # "sto"
      BY <1>2, <3>1, <3>3, StepsAre DEF Goes
    <3> QED
      BY <3>2, <3>3
  <2> QED
    BY <2>1, <2>2, <2>3
<1>7. CASE StoReceive
  <2> DEFINE m == Head(queue["sto"])
  <2>1. m \in StoMessage /\ m.type # "dumpCompleted" /\ todo'["sto"] = Handling(m)
    BY <1>7, StoReceiveSound
  <2> HIDE DEF m
  <2>2. WritesFirst(Handling(m)) /\ NewLogStep \notin ToSet(Handling(m))
    BY <2>1, HandlingWritesFirst
  <2> QED
    BY <2>1, <2>2 DEF Consolidating, Steps
<1>8. CASE WriteRecord
  <2>1. todo["sto"] # <<>> /\ todo'["sto"] = Tail(todo["sto"])
    BY <1>8, WriteRecordSound
  <2> QED
    BY <1>1, <2>1, NextInOrder
<1>9. CASE Rename
  <2>1. /\ todo["sto"] # <<>> /\ Head(todo["sto"]) = [op |-> "consolidate"]
        /\ \/ cur' = NoLog /\ todo'["sto"] = <<NewLogStep>> \o Tail(todo["sto"])
           \/ todo'["sto"] = Tail(todo["sto"])
    BY <1>9, RenameSound
  <2>2. Head(todo["sto"]).op # "record"
    BY <2>1
  <2> QED
    BY <1>1, <2>1, <2>2, NextInOrder
<1>10. CASE NewLog
  <2>1. /\ todo["sto"] # <<>> /\ Head(todo["sto"]) = NewLogStep
        /\ todo'["sto"] = <<Send("lsd", DumpRequest)>> \o Tail(todo["sto"])
    BY <1>10, NewLogSound
  <2>2. Head(todo["sto"]).op # "record" /\ Send("lsd", DumpRequest) # NewLogStep
    BY <2>1 DEF NewLogStep, Send
  <2> QED
    BY <1>1, <2>1, <2>2, NextInOrder
<1>11. CASE DumpComplete
  <2>1. todo'["sto"] = <<>>
    BY <1>11, DumpCompleteSound
  <2> QED
    BY <1>3, <2>1
<1>12. CASE DumpStep
  <2>1. todo'["sto"] = todo["sto"] /\ cur' = cur
    BY <1>12, LsdReceiveSound, ScanSound, StepsAre DEF DumpStep, SameRest, Goes
  <2> QED
    BY <1>2, <2>1
<1>13. CASE StartStep
  <2>1. todo'["sto"] = <<>>
    BY <1>13, LoadArchiveSound, LoadCurrentSound, RestartSound, StepsAre DEF StartStep
  <2> QED
    BY <1>3, <2>1
<1> QED
  BY <1>4, <1>5, <1>6, <1>7, <1>8, <1>9, <1>10, <1>11, <1>12, <1>13, NextIs DEF StorageStep
----------------------------------------------------------------------------
(* What a restart would load.                                              *)

Current == LoadFrom(Blank, cur)

\* A restart, or a load of the current log alone, would read every record.
StoredReads  == ~Hidden /\ Loadable
CurrentReads == Whole(cur) /\ Current.end # "failed"

LEMMA StoredAfterIs ==
  ASSUME TRUE
  PROVE  /\ Stored = StoredNow.props /\ Stored' = StoredNow.props'
         /\ LoadedArchive' = LoadFrom(Blank, arc') /\ Current' = LoadFrom(Blank, cur')
         /\ StoredNow = LoadFrom(LoadedArchive, cur)
         /\ StoredNow' = LoadFrom(LoadFrom(Blank, arc'), cur')
BY DEF Stored, StoredNow, LoadedArchive, Current, LoadFrom, Blank, RecordsOf

LEMMA SameStart ==
  ASSUME NEW s \in Loaded, NEW t \in Loaded, s.objs = t.objs, s.props = t.props, NEW log \in Log
  PROVE  LoadFrom(s, log) = LoadFrom(t, log)
<1> DEFINE rec == RecordsOf(log)
<1>1. rec \in Seq(Record)
  BY RecordsTyped
<1>2. PICK f : Reads(f, s, rec) /\ LoadFrom(s, log) = f[Len(rec)]
  BY <1>1, LoadReads
<1>3. PICK h : Reads(h, t, rec) /\ LoadFrom(t, log) = h[Len(rec)]
  BY <1>1, LoadReads
<1> HIDE DEF rec
<1>4. [s EXCEPT !.end = "ok"] = [t EXCEPT !.end = "ok"]
  <2>1. [s EXCEPT !.end = "ok"] = [objs |-> s.objs, props |-> s.props, end |-> "ok"]
    BY StartTyped
  <2>2. [t EXCEPT !.end = "ok"] = [objs |-> t.objs, props |-> t.props, end |-> "ok"]
    BY StartTyped
  <2> QED
    BY <2>1, <2>2
<1>5. Reads(h, s, rec)
  BY <1>3, <1>4 DEF Reads
<1>6. Len(rec) \in Nat
  BY <1>1, LenProperties
<1>7. ReadsOn(f, h, s, rec, rec)
  BY <1>1, <1>2, <1>5, <1>6 DEF ReadsOn
<1>8. \A n \in 0 .. Len(rec) : f[n] = h[n]
  BY <1>7, ReadingAgrees
<1>9. Len(rec) \in 0 .. Len(rec)
  BY <1>6
<1> QED
  BY <1>2, <1>3, <1>8, <1>9

LoadFacts ==
  /\ arc \in Log /\ cur \in Log
  /\ LoadedArchive \in Loaded /\ Current \in Loaded /\ StoredNow \in Loaded
  /\ Together(Current, StoredNow)
  /\ Loadable <=> ~discarded /\ LoadedArchive.end # "failed" /\ StoredNow.end # "failed"
  /\ Hidden <=> ~Whole(arc) \/ ~Whole(cur)
  /\ StoredReads => StoredNow.end = "ok"
  /\ CurrentReads => Current.end = "ok"
  /\ \A k \in Key, g \in Group : LiveIn(RecordsOf(cur), k, g) /\ Current.end # "failed" =>
       Agreed(Current, StoredNow, k, g)

LEMMA LoadsAre == Sound => LoadFacts
<1> SUFFICES ASSUME Sound PROVE LoadFacts
  OBVIOUS
<1>1. arc \in Log /\ cur \in Log /\ Blank \in Loaded
  BY BlankTyped DEF Sound, Typed, RestTyped
<1>2. LoadedArchive \in Loaded /\ Current \in Loaded
  BY <1>1, LoadTyped DEF LoadedArchive, Current
<1>3. StoredNow = LoadFrom(LoadedArchive, cur) /\ StoredNow \in Loaded
  BY <1>1, <1>2, LoadTyped, StoredAfterIs
<1>4. /\ Together(Current, StoredNow)
      /\ \A k \in Key, g \in Group : LiveIn(RecordsOf(cur), k, g) /\ Current.end # "failed" =>
           Agreed(Current, StoredNow, k, g)
  BY <1>1, <1>2, <1>3, LoadsTogether DEF Current
<1>5. /\ ~HasDeletion(RecordsOf(arc)) => LoadedArchive.end # "failed"
      /\ ~HasDeletion(RecordsOf(cur)) => StoredNow.end # "failed"
      /\ Whole(cur) => StoredNow.end # "stopped" /\ Current.end # "stopped"
  BY <1>1, <1>2, <1>3, LoadEnds DEF LoadedArchive, Current
<1>6. Loadable <=> ~discarded /\ LoadedArchive.end # "failed" /\ StoredNow.end # "failed"
  BY <1>5 DEF Loadable
<1>7. Hidden <=> ~Whole(arc) \/ ~Whole(cur)
  BY DEF Hidden, Whole
<1>8. \A s \in Loaded : s.end \in {"ok", "stopped", "failed"}
  BY DEF Loaded
<1>9. StoredReads => StoredNow.end = "ok"
  BY <1>3, <1>5, <1>6, <1>7, <1>8 DEF StoredReads
<1>10. CurrentReads => Current.end = "ok"
  BY <1>2, <1>5, <1>8 DEF CurrentReads
<1> QED
  BY <1>1, <1>2, <1>3, <1>4, <1>6, <1>7, <1>9, <1>10 DEF LoadFacts

LEMMA LoadsAfter == (Sound => LoadFacts)'
BY LoadsAre, PTL

\* A load that fails is remembered.
LEMMA HarmStays ==
  ASSUME [Next]_vars
  PROVE  /\ discarded' = discarded \/ LoadArchive \/ LoadCurrent
         /\ LoadArchive => discarded' = (discarded \/ LoadFrom(Blank, arc).end = "failed")
         /\ LoadCurrent => discarded' = (discarded \/ LoadFrom(ShadowNow, cur).end = "failed")
<1>1. LoadArchive => discarded' = (discarded \/ LoadFrom(Blank, arc).end = "failed")
  BY DEF LoadArchive, LoadedArchive
<1>2. LoadCurrent => discarded' = (discarded \/ LoadFrom(ShadowNow, cur).end = "failed")
  BY DEF LoadCurrent, LoadedCurrent, ShadowNow
<1>3. CASE UNCHANGED vars
  BY <1>1, <1>2, <1>3 DEF vars, harm
<1>4. CASE CallStep
  <2>1. \E t \in Thread : \E s : StartOp(t, s)
    BY <1>4 DEF CallStep, CreateProperty, SetValue, RemoveProperty, DestroyDevice, Thread, Client
  <2> QED
    BY <1>1, <1>2, <2>1 DEF StartOp, harm
<1>5. CASE ThreadStep
  BY <1>1, <1>2, <1>5 DEF ThreadStep, Announce, Subscribe, Notify, SendMessage, ClearDevice, DestroyObject, harm
<1>6. CASE StorageStep
  BY <1>1, <1>2, <1>6 DEF StorageStep, StoReceive, WriteRecord, Rename, NewLog, DumpComplete, harm
<1>7. CASE DumpStep
  BY <1>1, <1>2, <1>7 DEF DumpStep, LsdReceive, ScanDevice, harm
<1>8. CASE StartStep
  BY <1>1, <1>2, <1>8 DEF StartStep, Restart
<1> QED
  BY <1>3, <1>4, <1>5, <1>6, <1>7, <1>8, NextIs

\* Between the loads the shadow is what the archive holds.
Loading ==
  /\ phase = "archive" => objects = {} /\ DOMAIN shadow = {}
  /\ phase = "current" /\ ~discarded => objects = LoadedArchive.objs /\ shadow = LoadedArchive.props

Orderly == Consolidating /\ Loading

LEMMA LoadingReads ==
  ASSUME Sound, Loading, phase = "current", ~discarded
  PROVE  LoadFrom(ShadowNow, cur) = StoredNow
<1>1. LoadedArchive \in Loaded /\ ShadowNow \in Loaded /\ cur \in Log
  BY LoadsAre, ShadowNowTyped DEF Sound, Typed, LoadFacts
<1>2. ShadowNow.objs = LoadedArchive.objs /\ ShadowNow.props = LoadedArchive.props
  BY DEF ShadowNow, Loading
<1> QED
  BY <1>1, <1>2, SameStart, StoredAfterIs

LEMMA LoadingNext ==
  ASSUME Sound, Loading, [Next]_vars
  PROVE  Loading'
<1>1. CASE UNCHANGED vars
  <2>1. objects' = objects /\ shadow' = shadow /\ phase' = phase /\ arc' = arc /\ discarded' = discarded
    BY <1>1 DEF vars, mem, store, boot, harm
  <2> QED
    BY <2>1, StoredAfterIs DEF Loading, LoadedArchive
<1>2. CASE Running
  BY <1>2, RunningIs DEF Loading
<1>3. CASE LoadArchive
  <2>1. /\ phase' = "current" /\ TookOver(LoadFrom(Blank, arc))
        /\ arc' = IF LoadFrom(Blank, arc).end = "failed" THEN NoLog ELSE arc
    BY <1>3, LoadArchiveSound
  <2>2. ASSUME ~discarded' PROVE objects' = LoadedArchive'.objs /\ shadow' = LoadedArchive'.props
    <3>1. arc' = arc
      BY <1>3, <2>1, <2>2, HarmStays
    <3>2. LoadedArchive' = LoadFrom(Blank, arc)
      BY <3>1, StoredAfterIs
    <3> QED
      BY <2>1, <3>2 DEF TookOver
  <2> QED
    BY <2>1, <2>2 DEF Loading
<1>4. CASE LoadCurrent
  BY <1>4, LoadCurrentSound DEF Loading
<1>5. CASE Restart
  BY <1>5, RestartSound DEF Loading, Fresh
<1> QED
  BY <1>1, <1>2, <1>3, <1>4, <1>5, NextIs DEF Running, StartStep

\* What a step does to what a restart would load.
StoredKept ==
  /\ Stored' = Stored /\ (StoredReads' => StoredReads) /\ (Loadable' => Loadable)
  /\ \/ Current'.props = Current.props /\ (CurrentReads' => CurrentReads)
     \/ DOMAIN Current'.props = {}
StoredApplied(r) ==
  /\ WriteRecord /\ ~IsTorn(r) /\ RecordStep(r) \in Steps("sto") /\ LogsAppended(r)
  /\ StoredNow' = Apply(StoredNow, r) /\ Current' = Apply(Current, r)
  /\ (StoredReads' => StoredReads) /\ (Loadable' => Loadable) /\ (CurrentReads' => CurrentReads)
StoredDumped ==
  /\ DumpComplete /\ arc # NoLog /\ arc' = NoLog /\ cur' = cur
  /\ Stored' = Current.props /\ Current' = Current
  /\ (StoredReads' => CurrentReads) /\ (Loadable' => Current.end # "failed")
  /\ (CurrentReads' => CurrentReads)
Harmed == discarded' \/ (cut' # cut /\ phase' # "run")

LEMMA LoadFromNothing ==
  /\ LoadFrom(Blank, NoLog) = Blank
  /\ \A s \in Loaded : LoadFrom(s, NoLog).props = s.props /\ LoadFrom(s, <<>>).props = s.props
  /\ \A s : LoadFrom(s, NoLog) = LoadFrom(s, <<>>)
<1>1. \A s : LoadFrom(s, NoLog) = [s EXCEPT !.end = "ok"] /\ LoadFrom(s, <<>>) = [s EXCEPT !.end = "ok"]
  BY LoadNothing
<1>2. \A s \in Loaded : [s EXCEPT !.end = "ok"].props = s.props
  BY StartTyped
<1> QED
  BY <1>1, <1>2, BlankTyped

\* The conditions of the next state, in terms of the next logs.
LEMMA ReadsAfter ==
  ASSUME Sound'
  PROVE  /\ Loadable' <=> /\ ~discarded' /\ LoadFrom(Blank, arc').end # "failed"
                          /\ LoadFrom(LoadFrom(Blank, arc'), cur').end # "failed"
         /\ StoredReads' <=> Whole(arc') /\ Whole(cur') /\ Loadable'
         /\ CurrentReads' <=> Whole(cur') /\ LoadFrom(Blank, cur').end # "failed"
<1>1. LoadFacts'
  BY LoadsAfter
<1>2. (Whole(arc)' <=> Whole(arc')) /\ (Whole(cur)' <=> Whole(cur'))
  BY DEF Whole, Clean, RecordsOf, IsTorn
<1>3. Hidden' <=> ~Whole(arc)' \/ ~Whole(cur)'
  BY <1>1 DEF LoadFacts
<1>4. Loadable' <=> ~discarded' /\ LoadedArchive'.end # "failed" /\ StoredNow'.end # "failed"
  BY <1>1 DEF LoadFacts
<1>5. StoredReads' <=> Whole(arc') /\ Whole(cur') /\ Loadable'
  BY <1>2, <1>3 DEF StoredReads
<1>6. CurrentReads' <=> Whole(cur') /\ Current'.end # "failed"
  BY <1>2 DEF CurrentReads
<1> QED
  BY <1>4, <1>5, <1>6, StoredAfterIs

LEMMA AppliedIs ==
  ASSUME Sound, Sound', ~discarded, ~discarded',
         WriteRecord, NEW r \in Record, LogsAppended(r), ~IsTorn(r), RecordStep(r) \in Steps("sto")
  PROVE  StoredApplied(r)
<1>1. LoadFacts
  BY LoadsAre
<1>2. /\ arc \in Log /\ cur \in Log /\ Current \in Loaded /\ StoredNow \in Loaded
      /\ LoadedArchive = LoadFrom(Blank, arc) /\ StoredNow = LoadFrom(LoadFrom(Blank, arc), cur)
      /\ Current = LoadFrom(Blank, cur)
  BY <1>1 DEF LoadFacts, LoadedArchive, StoredNow, Current
<1>3. /\ Loadable <=> LoadedArchive.end # "failed" /\ StoredNow.end # "failed"
      /\ StoredReads <=> Whole(arc) /\ Whole(cur) /\ Loadable
      /\ CurrentReads <=> Whole(cur) /\ Current.end # "failed"
  BY <1>1 DEF LoadFacts, StoredReads, CurrentReads
<1>4. /\ Loadable' <=> LoadFrom(Blank, arc').end # "failed"
                       /\ LoadFrom(LoadFrom(Blank, arc'), cur').end # "failed"
      /\ StoredReads' <=> Whole(arc') /\ Whole(cur') /\ Loadable'
      /\ CurrentReads' <=> Whole(cur') /\ LoadFrom(Blank, cur').end # "failed"
  BY ReadsAfter
<1>5. arc' = arc /\ cur' = Append(RecordsOf(cur), r)
  BY DEF LogsAppended
<1>6. /\ LoadFrom(LoadFrom(Blank, arc'), cur') = Apply(StoredNow, r)
      /\ LoadFrom(Blank, cur') = Apply(Current, r)
  BY <1>2, <1>5, LoadAppended, BlankTyped
<1>7. StoredNow' = Apply(StoredNow, r) /\ Current' = Apply(Current, r)
  BY <1>6, StoredAfterIs
<1>8. Whole(cur') => Whole(cur)
  BY <1>2, <1>5, AppendedLog
<1>9. /\ Apply(StoredNow, r).end # "failed" => StoredNow.end # "failed"
      /\ Apply(Current, r).end # "failed" => Current.end # "failed"
  BY <1>2, EndStays
<1>10. (Loadable' => Loadable) /\ (CurrentReads' => CurrentReads) /\ (StoredReads' => StoredReads)
  BY <1>2, <1>3, <1>4, <1>5, <1>6, <1>8, <1>9
<1> QED
  BY <1>7, <1>10 DEF StoredApplied

LEMMA StoredAfter ==
  ASSUME Sound, Counted, Orderly, [Next]_vars
  PROVE  Harmed \/ StoredKept \/ (\E r \in Record : StoredApplied(r)) \/ StoredDumped
<1> SUFFICES ASSUME ~Harmed PROVE StoredKept \/ (\E r \in Record : StoredApplied(r)) \/ StoredDumped
  OBVIOUS
<1>1. LoadFacts /\ Sound'
  BY LoadsAre, SoundNext
<1>2. /\ arc \in Log /\ cur \in Log
      /\ LoadedArchive \in Loaded /\ Current \in Loaded /\ StoredNow \in Loaded
      /\ LoadedArchive = LoadFrom(Blank, arc) /\ StoredNow = LoadFrom(LoadFrom(Blank, arc), cur)
      /\ Current = LoadFrom(Blank, cur)
  BY <1>1 DEF LoadFacts, LoadedArchive, StoredNow, Current
<1>3. /\ Loadable' <=> LoadFrom(Blank, arc').end # "failed"
                       /\ LoadFrom(LoadFrom(Blank, arc'), cur').end # "failed"
      /\ StoredReads' <=> Whole(arc') /\ Whole(cur') /\ Loadable'
      /\ CurrentReads' <=> Whole(cur') /\ LoadFrom(Blank, cur').end # "failed"
  BY <1>1, ReadsAfter DEF Harmed
<1>4. ~discarded'
  BY DEF Harmed
<1>5. ~discarded
  BY <1>4, HarmStays
<1>6. /\ Loadable <=> LoadedArchive.end # "failed" /\ StoredNow.end # "failed"
      /\ StoredReads <=> Whole(arc) /\ Whole(cur) /\ Loadable
      /\ CurrentReads <=> Whole(cur) /\ Current.end # "failed"
  BY <1>1, <1>5 DEF LoadFacts, StoredReads, CurrentReads
<1>7. CASE LogsKept
  <2>1. arc' = arc /\ cur' = cur
    BY <1>7 DEF LogsKept
  <2>2. Stored' = Stored /\ Current' = Current
    BY <1>2, <2>1, StoredAfterIs
  <2> QED
    BY <1>2, <1>3, <1>6, <2>1, <2>2 DEF StoredKept
<1>8. ASSUME WriteRecord, NEW r \in Record, LogsAppended(r), ~IsTorn(r), RecordStep(r) \in Steps("sto")
      PROVE  StoredApplied(r)
  BY <1>1, <1>4, <1>5, <1>8, AppliedIs
<1>9. CASE LogsRenamed
  <2>1. arc = NoLog /\ arc' = cur /\ cur' = NoLog
    BY <1>9 DEF LogsRenamed
  <2>2. LoadedArchive = Blank /\ LoadedArchive.end = "ok"
    BY <1>2, <2>1, LoadFromNothing, BlankTyped
  <2>3. StoredNow = Current /\ StoredNow' = LoadFrom(Current, NoLog)
    BY <1>2, <2>1, <2>2, StoredAfterIs
  <2>4. StoredNow'.props = Current.props
    BY <1>2, <2>3, LoadFromNothing
  <2>5. Stored' = Stored
    BY <2>3, <2>4, StoredAfterIs
  <2>6. Current' = Blank /\ DOMAIN Current'.props = {}
    BY <2>1, StoredAfterIs, LoadFromNothing, BlankTyped
  <2>7. Whole(arc) /\ LoadFrom(Blank, arc') = StoredNow
    BY <1>2, <2>1, <2>3, CleanLogs
  <2>8. (Loadable' => Loadable) /\ (StoredReads' => StoredReads)
    BY <1>3, <1>6, <2>1, <2>2, <2>7
  <2> QED
    BY <2>5, <2>6, <2>8 DEF StoredKept
<1>10. CASE NewLog /\ LogStarted /\ NewLogStep \in Steps("sto")
  <2>1. cur = NoLog /\ arc' = arc /\ cur' = <<>>
    BY <1>10 DEF LogStarted, Orderly, Consolidating
  <2>2. StoredNow' = StoredNow /\ Current' = Current
    BY <1>2, <2>1, StoredAfterIs, LoadFromNothing
  <2>3. Stored' = Stored /\ Whole(cur)
    BY <2>1, <2>2, StoredAfterIs, CleanLogs
  <2>4. (Loadable' => Loadable) /\ (StoredReads' => StoredReads) /\ (CurrentReads' => CurrentReads)
    BY <1>2, <1>3, <1>6, <2>1, <2>2, <2>3, StoredAfterIs
  <2> QED
    BY <2>2, <2>3, <2>4 DEF StoredKept
<1>11. CASE ArchiveGone /\ DumpComplete
  <2>1. arc' = NoLog /\ cur' = cur
    BY <1>11 DEF ArchiveGone
  <2>2. StoredNow' = Current /\ Current' = Current
    BY <1>2, <2>1, StoredAfterIs, LoadFromNothing
  <2>3. CASE arc = NoLog
    <3>1. LogsKept
      BY <2>1, <2>3 DEF LogsKept
    <3> QED
      BY <1>7, <3>1
  <2>4. CASE arc # NoLog
    <3>1. Stored' = Current.props
      BY <2>2, StoredAfterIs
    <3>2. LoadFrom(LoadFrom(Blank, arc'), cur') = Current /\ LoadFrom(Blank, cur') = Current
      BY <2>2, StoredAfterIs
    <3>3. /\ (StoredReads' => CurrentReads) /\ (Loadable' => Current.end # "failed")
          /\ (CurrentReads' => CurrentReads)
      BY <1>3, <1>6, <2>1, <3>2
    <3> QED
      BY <1>11, <2>1, <2>2, <2>4, <3>1, <3>3 DEF StoredDumped
  <2> QED
    BY <2>3, <2>4
<1>12. CASE LoadArchive /\ LoadFrom(Blank, arc).end = "failed"
  BY <1>4, <1>12, HarmStays
<1>13. CASE LoadCurrent /\ LoadFrom(ShadowNow, cur).end = "failed"
  BY <1>4, <1>13, HarmStays
<1>14. CASE Restart
  <2>1. phase' # "run" /\ ((arc' = arc /\ cur' = cur) \/ cut' = cut + 1)
    BY <1>14, RestartSound
  <2>2. CASE arc' = arc /\ cur' = cur
    BY <1>7, <2>2 DEF LogsKept
  <2>3. CASE cut' = cut + 1
    <3>1. cut' # cut
      BY <2>3 DEF Counted
    <3> QED
      BY <2>1, <3>1 DEF Harmed
  <2> QED
    BY <2>1, <2>2, <2>3
<1> QED
  BY <1>7, <1>8, <1>9, <1>10, <1>11, <1>12, <1>13, <1>14, LogsAfter

LEMMA OrderlyInit == Init => Orderly
<1> SUFFICES ASSUME Init PROVE Orderly
  OBVIOUS
<1>1. \A t \in Thread : todo[t] = <<>> /\ Steps(t) = {}
  BY NoElements DEF Init, Steps
<1>2. Consolidating
  BY <1>1, StepsAre DEF Consolidating, WritesFirst
<1>3. Loading
  BY BlankTyped DEF Init, Loading
<1> QED
  BY <1>2, <1>3 DEF Orderly

\* What every step keeps.
Steady == Safe /\ Counted /\ Orderly

LEMMA SteadyInit == Init => Steady
BY SafeInit, CountedInit, OrderlyInit DEF Steady

LEMMA SteadyNext ==
  ASSUME Steady, [Next]_vars
  PROVE  Steady'
BY SafeNext, CountedNext, ConsolidatingNext, LoadingNext DEF Steady, Orderly, Safe
----------------------------------------------------------------------------
(* What has left the shadow, and is still stored, is about to be erased.   *)

Doomed(s, k)      == \/ s.op = "send" /\ Deletes(s.msg, k)
                     \/ s.op = "destroy" /\ s.dev = k[1]
Deleting(k)       == \E s \in Steps("handler") : Doomed(s, k)
DeletionComes(k)  == Deleting(k) \/ QueuedDeletion(k) \/ Erasing(k)
ErasureWritten(k) == WriteRecord /\ \E r \in Record : LogsAppended(r) /\ Erases(r, k)

LEMMA HandlerHandsOn ==
  ASSUME Sound, Running, NEW k, Deleting(k)
  PROVE  Deleting(k)' \/ QueuedDeletion(k)'
<1> PICK s \in Steps("handler") : Doomed(s, k)
  BY DEF Deleting
<1>0. s.op \in {"send", "destroy"}
  BY DEF Doomed
<1>1. ASSUME Steps("handler")' = Steps("handler") PROVE Deleting(k)'
  BY <1>1 DEF Deleting
<1>2. ASSUME NEW X, Goes("handler", X), s # Head(todo["handler"]) PROVE Deleting(k)'
  BY <1>2 DEF Goes, Deleting
<1>3. CASE CallStep
  <2>1. Steps("handler")' = Steps("handler")
    BY <1>3, CreatePropertySound, SetValueSound, RemovePropertySound, DestroyDeviceSound, StepsAre DEF CallStep
  <2> QED
    BY <1>1, <2>1
<1>4. ASSUME NEW t \in Thread, SendMessage(t) PROVE Deleting(k)' \/ QueuedDeletion(k)'
  <2>1. Goes(t, {})
    BY <1>4, SendSound
  <2>2. CASE t # "handler"
    <3>1. Steps("handler")' = Steps("handler")
      BY <2>1, <2>2, StepsAre DEF Goes
    <3> QED
      BY <1>1, <3>1
  <2>3. CASE t = "handler" /\ s # Head(todo["handler"])
    BY <1>2, <2>1, <2>3
  <2>4. CASE t = "handler" /\ s = Head(todo["handler"])
    <3>1. s.msg \in Messages("sto")' /\ s.op = "send"
      BY <1>4, <2>4, SentIs
    <3> QED
      BY <3>1 DEF QueuedDeletion, Doomed
  <2> QED
    BY <2>2, <2>3, <2>4
<1>5. ASSUME NEW t \in Thread, Announce(t) \/ Subscribe(t) \/ Notify(t) \/ ClearDevice(t)
      PROVE  Deleting(k)'
  <2>1. Head(todo[t]).op \notin {"send", "destroy"} /\ (todo' = todo \/ \E X : Goes(t, X))
    <3>1. CASE Announce(t)
      <4>1. PICK j \in Key, g \in Group : Head(todo[t]) = [op |-> "announce", key |-> j, group |-> g]
        BY <3>1, AnnounceSound
      <4>2. \E X : Goes(t, X)
        BY <3>1, AnnounceSound
      <4> QED
        BY <4>1, <4>2
    <3>2. CASE Subscribe(t)
      <4>1. PICK j \in Key, g \in Group : Head(todo[t]) = [op |-> "subscribe", key |-> j, group |-> g]
        BY <3>2, SubscribeSound
      <4>2. Goes(t, {})
        BY <3>2, SubscribeSound
      <4> QED
        BY <4>1, <4>2
    <3>3. CASE Notify(t) \/ ClearDevice(t)
      BY <3>3, NotifySound, ClearSound
    <3> QED
      BY <1>5, <3>1, <3>2, <3>3
  <2>2. CASE todo' = todo
    <3>1. Steps("handler")' = Steps("handler")
      BY <2>2 DEF Steps
    <3> QED
      BY <1>1, <3>1
  <2>3. CASE t # "handler" /\ \E X : Goes(t, X)
    <3>1. Steps("handler")' = Steps("handler")
      BY <2>3, StepsAre DEF Goes
    <3> QED
      BY <1>1, <3>1
  <2>4. CASE t = "handler" /\ \E X : Goes(t, X)
    BY <1>0, <1>2, <2>1, <2>4
  <2> QED
    BY <2>1, <2>2, <2>3, <2>4
<1>9. ASSUME NEW t \in Thread, DestroyObject(t) PROVE Deleting(k)'
  <2>1. PICK d \in Device :
          /\ Head(todo[t]) = DestroyStep(d)
          /\ Goes(t, {Send("sto", [type |-> "thingDeleted", dev |-> d])})
    BY <1>9, DestroySound
  <2>2. t = "handler"
    BY <1>9, DestroySound
  <2>3. CASE s # Head(todo["handler"])
    BY <1>2, <2>1, <2>2, <2>3
  <2>4. CASE s = DestroyStep(d)
    <3> DEFINE m == [type |-> "thingDeleted", dev |-> d]
    <3>1. d = k[1]
      BY <2>4 DEF Doomed, DestroyStep
    <3>2. Deletes(m, k)
      BY <3>1 DEF Deletes
    <3>3. Send("sto", m) \in Steps("handler")'
      BY <2>1, <2>2 DEF Goes
    <3> HIDE DEF m
    <3>4. Doomed(Send("sto", m), k)
      BY <3>2, SendIs DEF Doomed
    <3> QED
      BY <3>3, <3>4 DEF Deleting
  <2> QED
    BY <2>1, <2>2, <2>3, <2>4
<1>6. CASE ThreadStep
  BY <1>4, <1>5, <1>6, <1>9 DEF ThreadStep
<1>7. CASE StorageStep
  <2>1. Steps("handler")' = Steps("handler")
    <3>1. CASE StoReceive
      BY <3>1, StoReceiveSound, StepsAre
    <3>2. CASE DumpComplete
      BY <3>2, DumpCompleteSound DEF Steps
    <3>3. CASE WriteRecord \/ Rename \/ NewLog
      <4>1. \E X : Goes("sto", X)
        BY <3>3, WriteRecordSound, RenameSound, NewLogSound
      <4> QED
        BY <4>1, StepsAre DEF Goes
    <3> QED
      BY <1>7, <3>1, <3>2, <3>3 DEF StorageStep
  <2> QED
    BY <1>1, <2>1
<1>8. CASE DumpStep
  <2>1. Steps("handler")' = Steps("handler")
    BY <1>8, LsdReceiveSound, ScanSound, StepsAre DEF DumpStep, Goes
  <2> QED
    BY <1>1, <2>1
<1> QED
  BY <1>3, <1>6, <1>7, <1>8 DEF Running

LEMMA QueueHandsOn ==
  ASSUME Sound, Running, NEW k, QueuedDeletion(k)
  PROVE  QueuedDeletion(k)' \/ Erasing(k)'
<1> PICK m \in Messages("sto") : Deletes(m, k)
  BY DEF QueuedDeletion
<1>1. ASSUME m \in Messages("sto")' PROVE QueuedDeletion(k)'
  BY <1>1 DEF QueuedDeletion
<1>2. CASE queue'["sto"] = queue["sto"]
  BY <1>1, <1>2 DEF Messages
<1>3. CASE CallStep
  BY <1>2, <1>3, CreatePropertySound, SetValueSound, RemovePropertySound, DestroyDeviceSound DEF CallStep
<1>4. CASE ThreadStep
  <2>1. PICK t \in Thread : \/ Announce(t) \/ Subscribe(t) \/ Notify(t) \/ SendMessage(t)
                            \/ ClearDevice(t) \/ DestroyObject(t)
    BY <1>4 DEF ThreadStep
  <2>2. CASE SendMessage(t) /\ t # "sto"
    <3>1. m \in Messages("sto")'
      BY <2>2, SentIs
    <3> QED
      BY <1>1, <3>1
  <2> QED
    BY <1>2, <2>1, <2>2, AnnounceSound, SubscribeSound, NotifySound, SendSound, ClearSound, DestroySound
<1>5. CASE StoReceive
  <2> DEFINE h == Head(queue["sto"])
  <2>1. /\ Messages("sto") = {h} \cup Messages("sto")' /\ h \in StoMessage /\ h.type # "dumpCompleted"
        /\ todo'["sto"] = Handling(h)
    BY <1>5, StoReceiveSound
  <2> HIDE DEF h
  <2>2. CASE m = h
    <3>1. ASSUME NEW r \in Record, Handling(h) = <<RecordStep(r)>>, Erases(r, k) PROVE Erasing(k)'
      <4>1. RecordStep(r) \in Steps("sto")' /\ RecordStep(r).op = "record" /\ RecordStep(r).rec = r
        BY <2>1, <3>1 DEF Steps, ToSet, RecordStep
      <4> QED
        BY <3>1, <4>1 DEF Erasing
    <3>2. CASE h.type = "propertyDeleted"
      <4>1. Handling(h) = <<RecordStep(PropertyGone(h.key))>> /\ h.key = k /\ h.key \in Key
        BY <2>1, <2>2, <3>2, HandlingIs, MessageIs DEF Deletes
      <4>2. PropertyGone(h.key) \in Record /\ Erases(PropertyGone(h.key), k)
        BY <4>1 DEF PropertyGone, Record, Erases
      <4> QED
        BY <3>1, <4>1, <4>2
    <3>3. CASE h.type = "thingDeleted"
      <4>1. Handling(h) = <<RecordStep(DeviceGone(h.dev))>> /\ h.dev = k[1] /\ h.dev \in Device
        BY <2>1, <2>2, <3>3, HandlingIs, MessageIs DEF Deletes
      <4>2. DeviceGone(h.dev) \in Record /\ Erases(DeviceGone(h.dev), k)
        BY <4>1 DEF DeviceGone, Record, Erases
      <4> QED
        BY <3>1, <4>1, <4>2
    <3> QED
      BY <2>2, <3>2, <3>3 DEF Deletes
  <2>3. CASE m # h
    BY <1>1, <2>1, <2>3
  <2> QED
    BY <2>2, <2>3
<1>6. CASE DumpComplete
  <2>1. Messages("sto") = {DumpCompleted} \cup Messages("sto")'
    BY <1>6, DumpCompleteSound
  <2>2. m # DumpCompleted
    BY DEF Deletes, DumpCompleted
  <2> QED
    BY <1>1, <2>1, <2>2
<1>7. CASE WriteRecord \/ Rename \/ NewLog
  BY <1>2, <1>7, WriteRecordSound, RenameSound, NewLogSound
<1>8. CASE DumpStep
  BY <1>2, <1>8, LsdReceiveSound, ScanSound DEF DumpStep
<1> QED
  BY <1>3, <1>4, <1>5, <1>6, <1>7, <1>8 DEF Running, StorageStep

LEMMA ErasureGoesOn ==
  ASSUME Sound, Running, NEW k, Erasing(k)
  PROVE  Erasing(k)' \/ ErasureWritten(k)
<1> PICK s \in Steps("sto") : s.op = "record" /\ Erases(s.rec, k)
  BY DEF Erasing
<1>1. CASE todo'["sto"] = todo["sto"]
  BY <1>1 DEF Erasing, Steps
<1>2. ASSUME NEW X, Goes("sto", X), s # Head(todo["sto"]) PROVE Erasing(k)'
  BY <1>2 DEF Goes, Erasing
<1>3. ASSUME NEW t \in Thread \ {"sto"}, NEW X, Goes(t, X) PROVE todo'["sto"] = todo["sto"]
  BY <1>3, StepsAre DEF Goes
<1>4. CASE CallStep
  BY <1>1, <1>4, CreatePropertySound, SetValueSound, RemovePropertySound, DestroyDeviceSound, StepsAre DEF CallStep
<1>5. CASE ThreadStep
  <2>1. PICK t \in Thread : \/ Announce(t) \/ Subscribe(t) \/ Notify(t) \/ SendMessage(t)
                            \/ ClearDevice(t) \/ DestroyObject(t)
    BY <1>5 DEF ThreadStep
  <2>2. CASE SendMessage(t)
    <3>1. Goes(t, {}) /\ Head(todo[t]).op = "send"
      BY <2>2, SendSound
    <3> QED
      BY <1>1, <1>2, <1>3, <3>1
  <2>3. CASE Announce(t) \/ Subscribe(t) \/ Notify(t) \/ ClearDevice(t) \/ DestroyObject(t)
    <3>1. t \in Client /\ (todo' = todo \/ \E X : Goes(t, X))
      BY <2>3, AnnounceSound, SubscribeSound, NotifySound, ClearSound, DestroySound, StepsAre
    <3> QED
      BY <1>1, <1>3, <3>1, StepsAre
  <2> QED
    BY <2>1, <2>2, <2>3
<1>6. CASE StoReceive \/ DumpComplete
  BY <1>6, StoReceiveSound, DumpCompleteSound
<1>7. CASE WriteRecord
  <2>1. Goes("sto", {}) /\ arc' = arc
    BY <1>7, WriteRecordSound
  <2>2. CASE s # Head(todo["sto"])
    BY <1>2, <2>1, <2>2
  <2>3. CASE s = Head(todo["sto"])
    <3>1. PICK r \in Record :
            /\ r.type # "torn" /\ Head(todo["sto"]) = RecordStep(r)
            /\ \/ r.type = "set" /\ r.key \notin DOMAIN shadow /\ cur' = cur
               \/ cur' = Append(RecordsOf(cur), r)
      BY <1>7, WriteRecordSound
    <3>2. s.rec = r /\ Erases(r, k) /\ r.type # "set"
      BY <2>3, <3>1 DEF RecordStep, Erases
    <3>3. LogsAppended(r)
      BY <2>1, <3>1, <3>2 DEF LogsAppended
    <3> QED
      BY <1>7, <3>2, <3>3 DEF ErasureWritten
  <2> QED
    BY <2>2, <2>3
<1>8. CASE Rename \/ NewLog
  <2>1. Head(todo["sto"]).op # "record" /\ \E X : Goes("sto", X)
    BY <1>8, RenameSound, NewLogSound DEF NewLogStep
  <2> QED
    BY <1>2, <2>1
<1>9. CASE DumpStep
  BY <1>1, <1>3, <1>9, LsdReceiveSound, ScanSound, StepsAre DEF DumpStep
<1> QED
  BY <1>4, <1>5, <1>6, <1>7, <1>8, <1>9 DEF Running, StorageStep

(* What leaves the shadow of a device that is cleared is the device's.     *)
LEMMA ClearedIs ==
  ASSUME Sound, NEW t \in Thread, ClearDevice(t), NEW k \in DOMAIN shadow, k \notin DOMAIN shadow'
  PROVE  DestroyStep(k[1]) \in Steps("handler")'
<1>1. t = "handler" /\ todo[t] # <<>> /\ Head(todo[t]).op = "clear"
  BY ClearSound
<1>2. PICK d \in Device : todo["handler"] = <<ClearStep(d), DestroyStep(d)>> /\ Head(todo["handler"]) = ClearStep(d)
  <2>1. \A d : DestroyStep(d).op # "clear"
    BY DEF DestroyStep
  <2> QED
    BY <1>1, <2>1, DestroyingIs DEF Sound, Typed
<1>3. todo' = todo /\ objects' = objects /\ \E j \in KeysOf(d, shadow) : Unlink(j)
  BY <1>1, <1>2 DEF ClearDevice, ClearStep
<1>4. PICK j \in KeysOf(d, shadow) : Unlink(j)
  BY <1>3
<1>5. j \in DOMAIN shadow /\ j[1] = d
  BY DEF KeysOf
<1>6. DOMAIN shadow' = DOMAIN shadow \ {j}
  BY <1>3, <1>4, <1>5, UnlinkLeaves DEF Sound, Typed
<1>7. k[1] = d
  BY <1>5, <1>6
<1>8. DestroyStep(d) \in Steps("handler")'
  BY <1>2, <1>3 DEF Steps, ToSet
<1> QED
  BY <1>7, <1>8

(* A property that leaves the shadow is one that the handler removes.      *)
LEMMA RemovalIsTold ==
  ASSUME Sound, Running, NEW k \in DOMAIN shadow, k \notin DOMAIN shadow'
  PROVE  Deleting(k)'
<1>1. CASE CallStep
  <2>1. ASSUME NEW j \in Key, RemoveProperty(j) PROVE Deleting(k)'
    <3>1. k = j /\ Steps("handler")' = {Send("sto", [type |-> "propertyDeleted", key |-> j])}
      BY <2>1, RemovePropertySound
    <3> DEFINE m == [type |-> "propertyDeleted", key |-> j]
    <3>2. Deletes(m, k)
      BY <3>1 DEF Deletes
    <3> HIDE DEF m
    <3>3. Send("sto", m) \in Steps("handler")' /\ Send("sto", m).op = "send" /\ Send("sto", m).msg = m
      BY <3>1, SendIs DEF m
    <3> QED
      BY <3>2, <3>3 DEF Deleting, Doomed
  <2> QED
    BY <1>1, <2>1, CreatePropertySound, SetValueSound, DestroyDeviceSound DEF CallStep
<1>2. CASE ThreadStep
  <2>1. PICK t \in Thread : \/ Announce(t) \/ Subscribe(t) \/ Notify(t) \/ SendMessage(t)
                            \/ ClearDevice(t) \/ DestroyObject(t)
    BY <1>2 DEF ThreadStep
  <2>2. CASE ClearDevice(t)
    <3>1. DestroyStep(k[1]) \in Steps("handler")'
      BY <2>2, ClearedIs
    <3>2. Doomed(DestroyStep(k[1]), k)
      BY DEF Doomed, DestroyStep
    <3> QED
      BY <3>1, <3>2 DEF Deleting
  <2> QED
    BY <2>1, <2>2, AnnounceSound, SubscribeSound, NotifySound, SendSound, DestroySound DEF SameMem
<1>3. CASE StorageStep
  BY <1>3, StoReceiveSound, WriteRecordSound, RenameSound, NewLogSound, DumpCompleteSound
     DEF StorageStep, SameMem
<1>4. CASE DumpStep
  BY <1>4, LsdReceiveSound, ScanSound DEF DumpStep, SameMem
<1> QED
  BY <1>1, <1>2, <1>3, <1>4 DEF Running

LEMMA DeletionGoesOn ==
  ASSUME Sound, Running, NEW k, k \notin DOMAIN shadow',
         k \in DOMAIN shadow \/ DeletionComes(k)
  PROVE  DeletionComes(k)' \/ ErasureWritten(k)
BY HandlerHandsOn, QueueHandsOn, ErasureGoesOn, RemovalIsTold DEF DeletionComes

(* A record that is appended is applied last by a load.                    *)
LEMMA AppendedIs ==
  ASSUME Sound, NEW r \in Record, LogsAppended(r)
  PROVE  StoredNow' = Apply(StoredNow, r) /\ Current' = Apply(Current, r) /\ cur' # cur
<1>1. cur \in Log /\ cur' = Append(RecordsOf(cur), r)
  BY DEF Sound, Typed, RestTyped, LogsAppended
<1>2. StoredNow' = LoadFrom(LoadedArchive, Append(RecordsOf(cur), r))
      /\ Current' = LoadFrom(Blank, Append(RecordsOf(cur), r))
  BY <1>1, StoredAfterIs DEF LogsAppended, LoadedArchive
<1>3. cur' # cur
  <2>1. RecordsOf(cur) \in Seq(Record) /\ (cur # NoLog => RecordsOf(cur) = cur)
    BY <1>1, RecordsTyped
  <2>2. cur' \in Seq(Record) /\ Len(cur') = Len(RecordsOf(cur)) + 1 /\ Len(RecordsOf(cur)) \in Nat
    BY <1>1, <2>1, OneMore
  <2>3. cur' # NoLog
    BY <2>2, SequencesAreLogs
  <2>4. cur' # RecordsOf(cur)
    BY <2>2
  <2> QED
    BY <2>1, <2>3, <2>4
<1> QED
  BY <1>1, <1>2, <1>3, LoadAppended, StoredAfterIs DEF Current

LEMMA WrittenIs ==
  ASSUME Sound, WriteRecord, NEW r \in Record, LogsAppended(r)
  PROVE  /\ r.type # "torn" /\ RecordStep(r) \in Steps("sto")
         /\ r.type = "set" => r.key \in DOMAIN shadow
<1>1. PICK x \in Record :
        /\ x.type # "torn" /\ Head(todo["sto"]) = RecordStep(x)
        /\ \/ x.type = "set" /\ x.key \notin DOMAIN shadow /\ cur' = cur
           \/ /\ x.type = "set" => x.key \in DOMAIN shadow
              /\ cur' = Append(RecordsOf(cur), x)
  BY WriteRecordSound
<1>2. cur' = Append(RecordsOf(cur), r) /\ cur' # cur /\ RecordsOf(cur) \in Seq(Record)
  BY AppendedIs, RecordsTyped DEF Sound, Typed, RestTyped, LogsAppended
<1>3. cur' = Append(RecordsOf(cur), x) /\ (x.type = "set" => x.key \in DOMAIN shadow)
  BY <1>1, <1>2
<1>4. x = r
  <2>1. Append(RecordsOf(cur), x)[Len(RecordsOf(cur)) + 1] = x
    BY <1>2, OneMore
  <2>2. Append(RecordsOf(cur), r)[Len(RecordsOf(cur)) + 1] = r
    BY <1>2, OneMore
  <2> QED
    BY <1>2, <1>3, <2>1, <2>2
<1>5. Head(todo["sto"]) \in Steps("sto")
  BY WriteRecordSound
<1> QED
  BY <1>1, <1>3, <1>4, <1>5

\* Logs that stay are loaded as before.
LEMMA ReadsKept ==
  ASSUME Sound, Sound', arc' = arc, cur' = cur, discarded' <=> discarded
  PROVE  /\ Stored' = Stored /\ StoredNow' = StoredNow /\ Current' = Current
         /\ (StoredReads' <=> StoredReads) /\ (Loadable' <=> Loadable) /\ (CurrentReads' <=> CurrentReads)
<1>1. LoadFacts
  BY LoadsAre
<1>2. /\ LoadedArchive = LoadFrom(Blank, arc) /\ Current = LoadFrom(Blank, cur)
      /\ StoredNow = LoadFrom(LoadFrom(Blank, arc), cur)
  BY DEF LoadedArchive, StoredNow, Current
<1>3. Stored' = Stored /\ StoredNow' = StoredNow /\ Current' = Current
  BY <1>2, StoredAfterIs
<1>4. /\ Loadable <=> ~discarded /\ LoadFrom(Blank, arc).end # "failed"
                       /\ LoadFrom(LoadFrom(Blank, arc), cur).end # "failed"
      /\ StoredReads <=> Whole(arc) /\ Whole(cur) /\ Loadable
      /\ CurrentReads <=> Whole(cur) /\ LoadFrom(Blank, cur).end # "failed"
  BY <1>1, <1>2 DEF LoadFacts, StoredReads, CurrentReads
<1> QED
  BY <1>3, <1>4, ReadsAfter

Erased(props) == \A k \in DOMAIN props \ DOMAIN shadow : DeletionComes(k)

\* One step, for a log that is loaded to its end.
LEMMA ErasedNext ==
  ASSUME Sound, Running, NEW s \in Loaded, NEW t \in Loaded, Erased(s.props), s.end = "ok", t.end # "failed",
         \/ t.props = s.props /\ ~WriteRecord
         \/ t.props = s.props /\ cur' = cur
         \/ \E r \in Record : WriteRecord /\ LogsAppended(r) /\ t = Apply(s, r)
  PROVE  \A k \in DOMAIN t.props \ DOMAIN shadow' : DeletionComes(k)'
<1> SUFFICES ASSUME NEW k \in DOMAIN t.props, k \notin DOMAIN shadow' PROVE DeletionComes(k)'
  OBVIOUS
<1>1. ASSUME k \in DOMAIN s.props PROVE DeletionComes(k)' \/ ErasureWritten(k)
  BY <1>1, DeletionGoesOn DEF Erased
<1>2. CASE t.props = s.props /\ ~WriteRecord
  BY <1>1, <1>2 DEF ErasureWritten
<1>3. CASE t.props = s.props /\ cur' = cur
  BY <1>1, <1>3, AppendedIs DEF ErasureWritten
<1>4. ASSUME NEW r \in Record, WriteRecord, LogsAppended(r), t = Apply(s, r) PROVE DeletionComes(k)'
  <2>1. /\ r.type # "torn" /\ RecordStep(r) \in Steps("sto")
        /\ r.type = "set" => r.key \in DOMAIN shadow
        /\ shadow' = shadow
    BY <1>4, WrittenIs, WriteRecordSound DEF SameMem
  <2>2. r.type \in {"set", "propertyGone", "deviceGone"}
    BY <2>1, RecordIs
  <2>3. Restored(s, t, r)
    BY <1>4, ApplyRestores
  <2>4. k \in DOMAIN s.props /\ ~Erases(r, k)
    BY <2>1, <2>2, <2>3 DEF Erases, Restored
  <2>5. ~ErasureWritten(k)
    <3> SUFFICES ASSUME NEW x \in Record, LogsAppended(x), Erases(x, k) PROVE FALSE
      BY DEF ErasureWritten
    <3>1. RecordsOf(cur) \in Seq(Record) /\ Append(RecordsOf(cur), x) = Append(RecordsOf(cur), r)
      BY <1>4, RecordsTyped DEF LogsAppended, Sound, Typed, RestTyped
    <3>2. Append(RecordsOf(cur), x)[Len(RecordsOf(cur)) + 1] = x
      BY <3>1, OneMore
    <3>3. Append(RecordsOf(cur), r)[Len(RecordsOf(cur)) + 1] = r
      BY <3>1, OneMore
    <3> QED
      BY <2>4, <3>1, <3>2, <3>3
  <2> QED
    BY <1>1, <2>4, <2>5
<1> QED
  BY <1>2, <1>3, <1>4

DeletedAreErased ==
  phase = "run" /\ ~discarded => /\ StoredReads => Erased(Stored)
                                 /\ CurrentReads => Erased(Current.props)

\* After the loads the shadow is what was stored.
LEMMA LoadedIsStored ==
  ASSUME Sound, Loading, LoadCurrent, ~discarded'
  PROVE  /\ shadow' = StoredNow.props /\ StoredNow.end # "failed"
         /\ Stored' = Stored /\ Stored = StoredNow.props /\ Current' = Current
         /\ arc' = arc /\ cur' = cur /\ (discarded' <=> discarded)
         /\ Current.end # "failed" => DOMAIN Current.props \subseteq DOMAIN shadow'
<1>1. phase = "current" /\ TookOver(LoadFrom(ShadowNow, cur)) /\ arc' = arc
      /\ cur' = IF LoadFrom(ShadowNow, cur).end = "failed" THEN NoLog ELSE cur
  BY LoadCurrentSound
<1>2. /\ discarded' = (discarded \/ LoadFrom(ShadowNow, cur).end = "failed")
      /\ ~discarded /\ LoadFrom(ShadowNow, cur).end # "failed"
  BY DEF LoadCurrent, LoadedCurrent, ShadowNow
<1>3. LoadFrom(ShadowNow, cur) = StoredNow
  BY <1>1, <1>2, LoadingReads
<1>4. Together(Current, StoredNow)
  BY LoadsAre DEF LoadFacts
<1>5. cur' = cur /\ (discarded' <=> discarded)
  BY <1>1, <1>2
<1>6. Stored' = Stored /\ Current' = Current /\ Stored = StoredNow.props
  BY <1>1, <1>5, StoredAfterIs DEF LoadedArchive, StoredNow, Current
<1> QED
  BY <1>1, <1>2, <1>3, <1>4, <1>5, <1>6 DEF TookOver, Together

LEMMA DeletedAreErasedNext ==
  ASSUME Steady, DeletedAreErased, [Next]_vars
  PROVE  DeletedAreErased'
<1>1. Sound /\ Counted /\ Orderly
  BY DEF Steady, Safe
<1>2. Sound' /\ LoadFacts /\ LoadFacts'
  BY <1>1, SoundNext, LoadsAre, LoadsAfter
<1>3. /\ StoredNow \in Loaded /\ Current \in Loaded /\ StoredNow' \in Loaded /\ Current' \in Loaded
      /\ Stored = StoredNow.props /\ Stored' = StoredNow.props'
  BY <1>2, StoredAfterIs DEF LoadFacts
<1>4. /\ StoredReads => StoredNow.end = "ok"
      /\ CurrentReads => Current.end = "ok"
      /\ StoredReads' => StoredNow'.end # "failed"
      /\ CurrentReads' => Current'.end # "failed"
  BY <1>2 DEF LoadFacts, StoredReads, CurrentReads
<1>5. SUFFICES ASSUME phase' = "run", ~discarded'
               PROVE  /\ StoredReads' => \A k \in DOMAIN StoredNow'.props \ DOMAIN shadow' : DeletionComes(k)'
                      /\ CurrentReads' => \A k \in DOMAIN Current'.props \ DOMAIN shadow' : DeletionComes(k)'
  BY <1>3 DEF DeletedAreErased, Erased
<1>6. ~discarded
  BY <1>5, HarmStays
<1>7. CASE UNCHANGED vars
  <2>1. /\ shadow' = shadow /\ todo' = todo /\ queue' = queue /\ arc' = arc /\ cur' = cur
        /\ phase' = phase /\ discarded' = discarded
    BY <1>7 DEF vars, mem, store, boot, harm
  <2>2. \A k : DeletionComes(k)' <=> DeletionComes(k)
    BY <2>1 DEF DeletionComes, Deleting, Doomed, QueuedDeletion, Erasing, Steps, Messages
  <2>3. StoredNow' = StoredNow /\ Current' = Current /\ (StoredReads' <=> StoredReads) /\ (CurrentReads' <=> CurrentReads)
    BY <1>1, <1>2, <2>1, ReadsKept
  <2> QED
    BY <1>3, <1>5, <1>6, <2>1, <2>2, <2>3 DEF DeletedAreErased, Erased
<1>8. CASE Running
  <2>0. phase = "run"
    BY <1>1, <1>8, RunningIs
  <2>1. (StoredReads => Erased(StoredNow.props)) /\ (CurrentReads => Erased(Current.props))
    BY <1>3, <1>6, <2>0 DEF DeletedAreErased
  <2>2. ASSUME NEW r \in Record, StoredApplied(r)
        PROVE  /\ StoredReads' => \A k \in DOMAIN StoredNow'.props \ DOMAIN shadow' : DeletionComes(k)'
               /\ CurrentReads' => \A k \in DOMAIN Current'.props \ DOMAIN shadow' : DeletionComes(k)'
    <3>1. /\ WriteRecord /\ LogsAppended(r)
          /\ StoredNow' = Apply(StoredNow, r) /\ Current' = Apply(Current, r)
          /\ (StoredReads' => StoredReads) /\ (CurrentReads' => CurrentReads)
      BY <2>2 DEF StoredApplied
    <3>2. ASSUME StoredReads' PROVE \A k \in DOMAIN StoredNow'.props \ DOMAIN shadow' : DeletionComes(k)'
      <4>1. StoredNow.end = "ok" /\ Erased(StoredNow.props) /\ StoredNow'.end # "failed"
        BY <1>4, <2>1, <3>1, <3>2
      <4> QED
        BY <1>1, <1>3, <1>8, <3>1, <4>1, ErasedNext
    <3>3. ASSUME CurrentReads' PROVE \A k \in DOMAIN Current'.props \ DOMAIN shadow' : DeletionComes(k)'
      <4>1. Current.end = "ok" /\ Erased(Current.props) /\ Current'.end # "failed"
        BY <1>4, <2>1, <3>1, <3>3
      <4> QED
        BY <1>1, <1>3, <1>8, <3>1, <4>1, ErasedNext
    <3> QED
      BY <3>2, <3>3
  <2>3. CASE StoredKept /\ (~WriteRecord \/ cur' = cur)
    <3>1. ASSUME StoredReads' PROVE \A k \in DOMAIN StoredNow'.props \ DOMAIN shadow' : DeletionComes(k)'
      <4>1. StoredReads /\ StoredNow'.props = StoredNow.props
        BY <1>3, <2>3, <3>1 DEF StoredKept
      <4>2. StoredNow.end = "ok" /\ Erased(StoredNow.props) /\ StoredNow'.end # "failed"
        BY <1>4, <2>1, <3>1, <4>1
      <4> QED
        BY <1>1, <1>3, <1>8, <2>3, <4>1, <4>2, ErasedNext
    <3>2. ASSUME CurrentReads' PROVE \A k \in DOMAIN Current'.props \ DOMAIN shadow' : DeletionComes(k)'
      <4>1. CASE DOMAIN Current'.props = {}
        BY <4>1
      <4>2. CASE Current'.props = Current.props /\ CurrentReads
        <5>1. Current.end = "ok" /\ Erased(Current.props) /\ Current'.end # "failed"
          BY <1>4, <2>1, <3>2, <4>2
        <5> QED
          BY <1>1, <1>3, <1>8, <2>3, <4>2, <5>1, ErasedNext
      <4> QED
        BY <2>3, <3>2, <4>1, <4>2 DEF StoredKept
    <3> QED
      BY <3>1, <3>2
  <2>4. CASE StoredDumped
    <3>1. /\ ~WriteRecord /\ StoredNow'.props = Current.props /\ Current' = Current
          /\ (StoredReads' => CurrentReads) /\ (CurrentReads' => CurrentReads)
      BY <1>1, <1>3, <2>4, WriteRecordSound, DumpCompleteSound DEF StoredDumped
    <3>2. ASSUME CurrentReads
          PROVE  /\ \A k \in DOMAIN Current.props \ DOMAIN shadow' : DeletionComes(k)'
      <4>1. Current.end = "ok" /\ Erased(Current.props) /\ Current.end # "failed"
        BY <1>4, <2>1, <3>2
      <4> QED
        BY <1>1, <1>3, <1>8, <3>1, <4>1, ErasedNext
    <3> QED
      BY <3>1, <3>2
  <2>5. CASE WriteRecord /\ ~(\E r \in Record : StoredApplied(r))
    <3>1. LogsKept \/ \E r \in Record : LogsAppended(r)
      BY <1>1, <2>5, WriteRecordSound DEF LogsKept, LogsAppended
    <3>2. CASE LogsKept
      <4>1. ~StoredDumped
        BY <1>1, <2>5, WriteRecordSound, DumpCompleteSound DEF StoredDumped
      <4>2. StoredKept
        BY <1>1, <1>5, <2>5, <4>1, StoredAfter DEF Harmed
      <4> QED
        BY <2>3, <3>2, <4>2 DEF LogsKept
    <3>3. ASSUME NEW r \in Record, LogsAppended(r) PROVE FALSE
      <4>1. ~IsTorn(r) /\ RecordStep(r) \in Steps("sto")
        BY <1>1, <2>5, <3>3, WrittenIs DEF IsTorn
      <4> QED
        BY <1>1, <1>2, <1>5, <1>6, <2>5, <3>3, <4>1, AppliedIs
    <3> QED
      BY <3>1, <3>2, <3>3
  <2>6. CASE ~WriteRecord /\ ~(\E r \in Record : StoredApplied(r))
    BY <1>1, <1>5, <2>3, <2>4, <2>6, StoredAfter DEF Harmed
  <2> QED
    BY <2>2, <2>5, <2>6
<1>9. CASE LoadCurrent
  <2>1. /\ DOMAIN StoredNow'.props \subseteq DOMAIN shadow' /\ Current' = Current
        /\ Current.end # "failed" => DOMAIN Current.props \subseteq DOMAIN shadow'
    BY <1>1, <1>3, <1>5, <1>9, LoadedIsStored DEF Orderly
  <2> QED
    BY <1>4, <2>1
<1>10. CASE LoadArchive \/ Restart
  BY <1>1, <1>5, <1>10, LoadArchiveSound, RestartSound
<1> QED
  BY <1>7, <1>8, <1>9, <1>10, NextIs DEF Running, StartStep
----------------------------------------------------------------------------
(* What is in the shadow is stored, or something about it is on its way.   *)

Comes(k) == \/ \E g \in Group : OnTheWay(k, g)
            \/ Kept(k) /\ k \in DOMAIN Stored

StoredComes == phase = "run" /\ StoredReads => \A k \in DOMAIN shadow : Comes(k)

\* When the archive goes, the current log has a record of every property that
\* is not about to get one.
LEMMA DumpedIsStored ==
  ASSUME Steady, StoredDumped, CurrentReads, NEW k \in DOMAIN shadow, NEW g \in Group, ~OnTheWay(k, g)
  PROVE  Kept(k) /\ Agreed(Current, StoredNow, k, g)
<1>1. Steps("lsd") = {} /\ Started
  BY DumpIsWhole DEF StoredDumped, Steady
<1>2. Covered(k, g) /\ ~Unscanned(k, g)
  BY <1>1 DEF Steady, Safe, DumpCovers, Unscanned, CurrentReads
<1>3. Kept(k) /\ LiveIn(RecordsOf(cur), k, g)
  BY <1>2 DEF Covered
<1>4. k \in Key /\ LoadFacts
  BY PropsAre, LoadsAre DEF Steady, Safe, Sound, Typed, MemTyped
<1> QED
  BY <1>3, <1>4 DEF LoadFacts, CurrentReads

LEMMA StoredComesNext ==
  ASSUME Steady, StoredComes, [Next]_vars
  PROVE  StoredComes'
<1>1. Sound /\ Counted /\ Orderly /\ OneErasure
  BY DEF Steady, Safe
<1>2. Sound' /\ LoadFacts /\ LoadFacts'
  BY <1>1, SoundNext, LoadsAre, LoadsAfter
<1>3. /\ StoredNow \in Loaded /\ StoredNow' \in Loaded
      /\ Stored = StoredNow.props /\ Stored' = StoredNow.props'
  BY <1>2, StoredAfterIs DEF LoadFacts
<1>4. /\ StoredReads => StoredNow.end = "ok"
      /\ StoredReads' => StoredNow'.end # "failed" /\ ~discarded'
  BY <1>2 DEF LoadFacts, StoredReads
<1>5. SUFFICES ASSUME phase' = "run", StoredReads', NEW k \in DOMAIN shadow' PROVE Comes(k)'
  BY DEF StoredComes
<1>6. ~discarded /\ ~discarded'
  <2>1. ~discarded'
    BY <1>4, <1>5
  <2>2. ~discarded
    BY <2>1, HarmStays
  <2> QED
    BY <2>1, <2>2
<1>7. CASE UNCHANGED vars
  <2>1. /\ shadow' = shadow /\ todo' = todo /\ queue' = queue /\ arc' = arc /\ cur' = cur
        /\ phase' = phase /\ discarded' = discarded
    BY <1>7 DEF vars, mem, store, boot, harm
  <2>2. StoredNow' = StoredNow /\ (StoredReads' <=> StoredReads)
    BY <1>1, <1>2, <2>1, ReadsKept
  <2>3. Comes(k)
    BY <1>5, <2>1, <2>2 DEF StoredComes
  <2>4. \A t \in Thread : Steps(t)' = Steps(t)
    BY <2>1 DEF Steps
  <2>5. Kept(k)' = Kept(k)
    BY <2>1, <2>4, StepsAre DEF Kept, QueuedDeletion, Erasing, Messages
  <2>6. \A g \in Group : OnTheWay(k, g)' = OnTheWay(k, g)
    BY <2>1, <2>4, StepsAre DEF OnTheWay, Carried, Queued, Writing, Setters, Deleters, QueuedDeletion, Messages,
                                StoMessage, DeltaMessage, Deletion, DumpCompleted
  <2> QED
    BY <1>3, <2>2, <2>3, <2>5, <2>6 DEF Comes
<1>8. CASE Running
  <2>0. phase = "run" /\ Group # {}
    BY <1>1, <1>8, RunningIs DEF Group
  <2>1. CASE \E j \in Key, v \in Value : j = k /\ CreateProperty(j, v)
    <3>1. \A g \in Group : Carried(k, g)'
      BY <1>1, <2>1, NewIsCarried
    <3> QED
      BY <2>0, <3>1 DEF Comes, OnTheWay
  <2>2. CASE k \in DOMAIN shadow
    <3>1. \A g \in Group : GoesOn(k, g)
      BY <1>1, <1>8, <2>2, GoesOnNext
    <3>3. ASSUME NEW r \in Record, WriteRecord, LogsAppended(r) PROVE Comes(k)'
      <4>1. /\ ~IsTorn(r) /\ r.type # "torn" /\ RecordStep(r) \in Steps("sto")
            /\ r.type \in {"set", "propertyGone", "deviceGone"}
        BY <1>1, <3>3, WrittenIs, RecordIs DEF IsTorn
      <4>2. StoredApplied(r)
        BY <1>1, <1>2, <1>6, <3>3, <4>1, AppliedIs
      <4>3. StoredNow' = Apply(StoredNow, r) /\ StoredNow.end = "ok" /\ Comes(k) /\ StoredNow'.end # "failed"
        BY <1>4, <1>5, <2>0, <2>2, <4>2 DEF StoredApplied, StoredComes
      <4>4. Restored(StoredNow, StoredNow', r)
        BY <1>3, <4>3, ApplyRestores
      <4>5. CASE \E g \in Group : OnTheWay(k, g)
        <5>1. PICK g \in Group : OnTheWay(k, g)
          BY <4>5
        <5>2. CASE OnTheWay(k, g)'
          BY <5>2 DEF Comes
        <5>3. CASE Kept(k)' /\ Written(k, g)
          <6>1. PICK x \in Record : LogsAppended(x) /\ x.type = "set" /\ x.key = k
            BY <5>3 DEF Written
          <6>2. x = r
            <7>1. RecordsOf(cur) \in Seq(Record) /\ Append(RecordsOf(cur), x) = Append(RecordsOf(cur), r)
              BY <1>1, <3>3, <6>1, RecordsTyped DEF LogsAppended, Sound, Typed, RestTyped
            <7>2. Append(RecordsOf(cur), x)[Len(RecordsOf(cur)) + 1] = x
              BY <7>1, OneMore
            <7>3. Append(RecordsOf(cur), r)[Len(RecordsOf(cur)) + 1] = r
              BY <7>1, OneMore
            <7> QED
              BY <7>1, <7>2, <7>3
          <6>3. k \in DOMAIN Stored'
            BY <1>3, <4>4, <6>1, <6>2 DEF Restored
          <6> QED
            BY <5>3, <6>3 DEF Comes
        <5> QED
          BY <3>1, <5>1, <5>2, <5>3 DEF GoesOn
      <4>6. CASE Kept(k) /\ k \in DOMAIN Stored
        <5>1. Kept(k)'
          BY <2>0, <3>1, <4>6 DEF GoesOn
        <5>2. ~Erases(r, k)
          BY <4>1, <4>6 DEF Kept, Erasing, RecordStep
        <5>3. k \in DOMAIN StoredNow'.props
          BY <1>3, <4>1, <4>3, <4>4, <4>6, <5>2 DEF Restored, Erases
        <5> QED
          BY <1>3, <5>1, <5>3 DEF Comes
      <4> QED
        BY <4>3, <4>5, <4>6 DEF Comes
    <3>4. ASSUME StoredKept, \A g \in Group : ~Written(k, g) PROVE Comes(k)'
      <4>1. Comes(k) /\ Stored' = Stored
        BY <1>5, <2>0, <2>2, <3>4 DEF StoredKept, StoredComes
      <4> QED
        BY <2>0, <3>1, <3>4, <4>1 DEF Comes, GoesOn
    <3>5. CASE StoredDumped
      <4>1. \A g \in Group : ~Written(k, g)
        BY <1>1, <3>5, AppendedIs DEF Written, StoredDumped
      <4>2. CurrentReads /\ Stored' = Current.props
        BY <1>5, <3>5 DEF StoredDumped
      <4>3. CASE \E g \in Group : OnTheWay(k, g)
        BY <3>1, <4>1, <4>3 DEF GoesOn, Comes
      <4>4. ASSUME NEW g \in Group, ~OnTheWay(k, g) PROVE Comes(k)'
        <5>1. Kept(k) /\ Agreed(Current, StoredNow, k, g)
          BY <2>2, <3>5, <4>2, <4>4, DumpedIsStored
        <5> QED
          BY <3>1, <4>2, <5>1 DEF GoesOn, Comes, Agreed
      <4> QED
        BY <2>0, <4>3, <4>4
    <3>6. CASE \E r \in Record : StoredApplied(r)
      BY <3>3, <3>6 DEF StoredApplied
    <3>7. CASE \E g \in Group : Written(k, g)
      <4>1. PICK r \in Record : LogsAppended(r) /\ r.type = "set"
        BY <3>7 DEF Written
      <4>2. CASE WriteRecord
        BY <3>3, <4>1, <4>2
      <4>3. CASE ~WriteRecord
        <5>1. cur' # cur
          BY <1>1, <4>1, AppendedIs
        <5>2. LogsRenamed \/ LogStarted
          BY <1>1, <1>8, <4>3, <5>1, LogsAfter, RunningIs, LoadCurrentSound, RestartSound
             DEF LogsKept, ArchiveGone
        <5>3. RecordsOf(cur) \in Seq(Record) /\ cur' = Append(RecordsOf(cur), r)
          BY <1>1, <4>1, RecordsTyped DEF LogsAppended, Sound, Typed, RestTyped
        <5>4. cur' \in Seq(Record) /\ cur' # <<>>
          BY <5>3, OneMore
        <5> QED
          BY <5>2, <5>4, SequencesAreLogs DEF LogsRenamed, LogStarted
      <4> QED
        BY <4>2, <4>3
    <3>8. StoredKept \/ (\E r \in Record : StoredApplied(r)) \/ StoredDumped
      BY <1>1, <1>5, <1>6, StoredAfter DEF Harmed
    <3> QED
      BY <3>4, <3>5, <3>6, <3>7, <3>8
  <2> QED
    BY <1>1, <1>8, <2>1, <2>2, KeysAfter
<1>9. CASE LoadCurrent
  <2>1. k \in DOMAIN Stored'
    BY <1>1, <1>5, <1>6, <1>9, LoadedIsStored DEF Orderly
  <2>2. StartStep
    BY <1>9 DEF StartStep
  <2>3. Messages("sto")' = {} /\ \A t \in Thread : Steps(t)' = {}
    BY <1>1, <2>2, StartIsEmpty
  <2>4. Kept(k)'
    BY <2>3, StepsAre DEF Kept, QueuedDeletion, Erasing
  <2> QED
    BY <2>1, <2>4 DEF Comes
<1>10. CASE LoadArchive \/ Restart
  BY <1>1, <1>5, <1>10, LoadArchiveSound, RestartSound
<1> QED
  BY <1>7, <1>8, <1>9, <1>10, NextIs DEF Running, StartStep

\* All that the proofs about what is stored rest on.
Lasting == Steady /\ DeletedAreErased /\ StoredComes

LEMMA LastingInit == Init => Lasting
<1> SUFFICES ASSUME Init PROVE Lasting
  OBVIOUS
<1>1. phase # "run"
  BY DEF Init
<1> QED
  BY <1>1, SteadyInit DEF Lasting, DeletedAreErased, StoredComes

LEMMA AlwaysLasting == Spec => []Lasting
<1>1. Lasting /\ [Next]_vars => Lasting'
  BY SteadyNext, DeletedAreErasedNext, StoredComesNext DEF Lasting
<1> QED
  BY <1>1, LastingInit, PTL DEF Spec

LEMMA QuiescentIsStored == Lasting => QuiescentKeys
<1> SUFFICES ASSUME Lasting, Quiescent, StoredReads PROVE DOMAIN Stored = DOMAIN shadow
  BY DEF QuiescentKeys, StoredReads
<1>1. /\ phase = "run" /\ \A t \in Thread : Steps(t) = {}
      /\ Messages("sto") = {} /\ queue["sto"] = <<>>
  BY NoElements DEF Quiescent, Steps, Messages, Lasting, Steady, Safe, Sound, Typed, QueueTyped
<1>2. ASSUME NEW k \in DOMAIN Stored PROVE k \in DOMAIN shadow
  <2>1. ~DeletionComes(k) /\ ~discarded
    BY <1>1, StepsAre DEF DeletionComes, Deleting, QueuedDeletion, Erasing, StoredReads, Loadable
  <2> QED
    BY <1>1, <1>2, <2>1 DEF Lasting, DeletedAreErased, Erased
<1>3. ASSUME NEW k \in DOMAIN shadow PROVE k \in DOMAIN Stored
  <2>1. \A g \in Group : ~OnTheWay(k, g)
    BY <1>1, StepsAre DEF OnTheWay, Carried, Queued, Writing, LastIn
  <2> QED
    BY <1>1, <1>3, <2>1 DEF Lasting, StoredComes, Comes
<1> QED
  BY <1>2, <1>3

(* Once every thread is idle a restart would bring back every property     *)
(* that exists and none that was deleted, as long as no torn record hides  *)
(* what is stored and the logs load: no interleaving of creations, updates,*)
(* removals and deletions of devices with consolidations, restarts and     *)
(* losses of power loses one, or brings one back.                          *)
THEOREM IdleKeysAreStored == Spec => []QuiescentKeys
BY AlwaysLasting, QuiescentIsStored, PTL
----------------------------------------------------------------------------
(* The storage component is a persistent shadow.                           *)

LEMMA SettledIs ==
  /\ phase # "run" => Settled = DOMAIN Stored
  /\ phase = "run" /\ ~StoredReads => Settled = {}
  /\ phase = "run" /\ StoredReads => Settled = AtRest
BY DEF Settled, StoredReads

LEMMA SettledIsStored == Lasting => Settled \subseteq DOMAIN Stored
<1> SUFFICES ASSUME Lasting, NEW k \in Settled PROVE k \in DOMAIN Stored
  OBVIOUS
<1>1. CASE phase = "run" /\ StoredReads
  <2>1. k \in AtRest
    BY <1>1, SettledIs
  <2>2. k \in DOMAIN shadow /\ \A g \in Group : ~OnTheWay(k, g)
    BY <2>1, AtRestIs DEF Lasting, Steady, Safe, Sound, Group
  <2> QED
    BY <1>1, <2>2 DEF Lasting, StoredComes, Comes
<1> QED
  BY <1>1, SettledIs

LEMMA SettledAfter == (Lasting => Settled \subseteq DOMAIN Stored)'
BY SettledIsStored, PTL

\* The harm of the refinement mapping.
Costs == <<cut, discarded, IF Loadable THEN <<>> ELSE store>>

LEMMA NothingForgotten == P!Forget(Stored, Stored, Settled)
<1>1. "reported" \in Group
  BY DEF Group
<1> QED
  BY <1>1 DEF P!Forget

LEMMA SetIsWritten ==
  ASSUME NEW s \in Loaded, NEW r \in Record, s.end = "ok", r.type = "set"
  PROVE  P!Write(s.props, Apply(s, r).props)
<1> DEFINE old == s.props
           new == Apply(s, r).props
<1>1. /\ DOMAIN new = DOMAIN old \cup {r.key}
      /\ \A k \in DOMAIN old \ {r.key} : new[k] = old[k]
      /\ new[r.key][r.group] = r.value
      /\ \A g \in Group : g # r.group =>
           new[r.key][g] = IF r.key \in DOMAIN old THEN old[r.key][g] ELSE r.value
  BY ApplyRestores DEF Restored
<1>2. r.group \in Group
  BY RecordIs
<1> HIDE DEF old, new
<1>3. IF r.key \in DOMAIN old
      THEN \E g \in Group : \A h \in Group \ {g} : new[r.key][h] = old[r.key][h]
      ELSE \A g, h \in Group : new[r.key][g] = new[r.key][h]
  <2>1. CASE r.key \in DOMAIN old
    BY <1>1, <1>2, <2>1
  <2>2. CASE r.key \notin DOMAIN old
    <3>1. \A g \in Group : new[r.key][g] = r.value
      BY <1>1, <2>2
    <3> QED
      BY <2>2, <3>1
  <2> QED
    BY <2>1, <2>2
<1>4. P!Write(old, new)
  BY <1>1, <1>3 DEF P!Write
<1> QED
  BY <1>4 DEF old, new

\* What a deletion erases is in the handler's hand, and so is not settled.
LEMMA DeletedIsForgotten ==
  ASSUME Lasting, NEW r \in Record, StoredApplied(r), StoredNow.end = "ok",
         r.type \in {"propertyGone", "deviceGone"}
  PROVE  P!Forget(Stored, Stored', Settled)
<1>1. Sound
  BY DEF Lasting, Steady, Safe
<1>2. StoredNow \in Loaded /\ Stored = StoredNow.props /\ Stored' = Apply(StoredNow, r).props
  BY <1>1, LoadsAre, StoredAfterIs DEF StoredApplied, LoadFacts
<1>3. Restored(StoredNow, Apply(StoredNow, r), r)
  BY <1>2, ApplyRestores
<1>4. /\ DOMAIN Stored' \subseteq DOMAIN Stored /\ \A k \in DOMAIN Stored' : Stored'[k] = Stored[k]
      /\ \A k \in DOMAIN Stored \ DOMAIN Stored' : Erases(r, k)
  BY <1>2, <1>3 DEF Restored, Erases
<1>5. ASSUME NEW k \in DOMAIN Stored, Erases(r, k) PROVE k \notin Settled
  <2>1. phase = "run" /\ k \in Key
    BY <1>1, <1>2, WriteRecordSound, PropsAre DEF StoredApplied, Loaded
  <2>2. k \notin AtRest
    <3>1. RecordStep(r) \in Steps("sto") /\ RecordStep(r).op = "record" /\ RecordStep(r).rec = r
      BY DEF StoredApplied, RecordStep
    <3>2. k \in AboutRecord(r)
      BY <1>5, <2>1 DEF AboutRecord, Erases
    <3>3. k \in InHand(RecordStep(r))
      BY <3>1, <3>2 DEF InHand
    <3> QED
      BY <3>1, <3>3, StepsAre DEF AtRest, InFlight
  <2> QED
    BY <2>1, <2>2, SettledIs
<1>6. "reported" \in Group
  BY DEF Group
<1> QED
  BY <1>4, <1>5, <1>6 DEF P!Forget

LEMMA DumpForgetsNothing ==
  ASSUME Lasting, StoredDumped, Current.end # "failed"
  PROVE  P!Forget(Stored, Stored', Settled)
<1>1. Sound /\ Steady
  BY DEF Lasting, Steady, Safe
<1>2. /\ Current \in Loaded /\ StoredNow \in Loaded /\ Together(Current, StoredNow)
      /\ Stored = StoredNow.props /\ Stored' = Current.props /\ (Hidden <=> ~Whole(arc) \/ ~Whole(cur))
  BY <1>1, LoadsAre, StoredAfterIs DEF StoredDumped, LoadFacts
<1>3. /\ DOMAIN Stored' \subseteq DOMAIN Stored
      /\ \A k \in DOMAIN Stored' : \E g \in Group : Stored'[k][g] = Stored[k][g]
  BY <1>2 DEF Together
<1>4. phase = "run"
  BY <1>1, DumpCompleteSound DEF StoredDumped
<1>5. ASSUME NEW k \in Settled PROVE k \in DOMAIN Stored' /\ Stored'[k] = Stored[k]
  <2>1. k \in AtRest /\ StoredReads
    BY <1>4, <1>5, SettledIs
  <2>2. CurrentReads
    BY <1>2, <2>1 DEF StoredReads, CurrentReads
  <2>3. k \in DOMAIN shadow /\ \A g \in Group : ~OnTheWay(k, g)
    BY <1>1, <2>1, AtRestIs DEF Sound, Group
  <2>4. \A g \in Group : Agreed(Current, StoredNow, k, g)
    BY <1>1, <2>2, <2>3, DumpedIsStored
  <2>5. /\ k \in DOMAIN Stored' /\ k \in DOMAIN Stored
        /\ \A g \in Group : Stored'[k][g] = Stored[k][g]
    BY <1>2, <2>4 DEF Agreed, Group
  <2>6. Stored'[k] \in [Group -> Value] /\ Stored[k] \in [Group -> Value]
    BY <1>2, <2>5, PropsAre DEF Loaded
  <2> QED
    BY <2>5, <2>6
<1>6. ASSUME NEW k \in DOMAIN Stored'
      PROVE  \E g \in Group : \A h \in Group \ {g} : Stored'[k][h] = Stored[k][h]
  <2>1. PICK f \in Group : Stored'[k][f] = Stored[k][f]
    BY <1>3, <1>6
  <2>2. \E g \in Group : Group \ {g} = {f}
    BY DEF Group
  <2> QED
    BY <2>1, <2>2
<1> QED
  BY <1>3, <1>5, <1>6 DEF P!Forget

\* A step that touches a log that does not load, or lets it be so, is harm.
LEMMA CostsChange ==
  ASSUME Costs' = Costs
  PROVE  cut' = cut /\ discarded' = discarded /\ (Loadable' = Loadable \/ (Loadable' <=> Loadable))
         /\ (Loadable \/ store' = store)
<1>1. cut' = cut /\ discarded' = discarded
      /\ (IF Loadable THEN <<>> ELSE store)' = IF Loadable THEN <<>> ELSE store
  BY DEF Costs
<1>2. store # <<>> /\ store' # <<>>
  BY DEF store
<1> QED
  BY <1>1, <1>2

(* The abstract specification allows every step: a property that has       *)
(* settled is never forgotten, wherever a consolidation, a deletion, a     *)
(* dump or a restart falls, unless power is lost inside an operation on a  *)
(* log or a log does not load.                                             *)
THEOREM PersistentShadowIsImplemented == Spec => StorageIsPersistent
<1>1. Init => P!Init
  <2> SUFFICES ASSUME Init PROVE P!Init
    OBVIOUS
  <2>1. StoredNow = Blank
    BY LoadFromNothing DEF Init, StoredNow
  <2>2. DOMAIN Stored = {}
    BY <2>1, StoredAfterIs, BlankTyped
  <2>3. Settled = {}
    BY <2>2, SettledIs DEF Init
  <2> QED
    BY <2>2, <2>3 DEF P!Init
<1>2. Lasting /\ Lasting' /\ [Next]_vars => [P!Next]_<<Stored, Settled, Costs>>
  <2> SUFFICES ASSUME Lasting, Lasting', [Next]_vars PROVE P!Next
    OBVIOUS
  <2>1. Settled' \subseteq DOMAIN Stored'
    BY SettledAfter
  <2>2. Sound /\ Counted /\ Orderly
    BY DEF Lasting, Steady, Safe
  <2>3. ASSUME P!Forget(Stored, Stored', Settled) \/ P!Write(Stored, Stored') \/ Costs' # Costs
        PROVE  P!Next
    BY <2>1, <2>3 DEF P!Next, Costs
  <2>4. CASE Costs' # Costs
    BY <2>3, <2>4
  <2>5. CASE store' = store
    <3>1. Stored' = Stored
      BY <2>5, StoredAfterIs DEF store, StoredNow
    <3> QED
      BY <2>3, <3>1, NothingForgotten
  <2>6. CASE Costs' = Costs /\ store' # store
    <3>1. cut' = cut /\ Loadable /\ Loadable'
      BY <2>6, CostsChange
    <3>2. ~Harmed
      BY <3>1 DEF Harmed, Loadable
    <3>3. CASE StoredKept
      <4>1. Stored' = Stored
        BY <3>3 DEF StoredKept
      <4> QED
        BY <2>3, <4>1, NothingForgotten
    <3>4. CASE StoredDumped
      BY <2>3, <3>1, <3>4, DumpForgetsNothing DEF StoredDumped
    <3>5. ASSUME NEW r \in Record, StoredApplied(r) PROVE P!Next
      <4>1. StoredNow \in Loaded /\ Stored = StoredNow.props /\ Stored' = Apply(StoredNow, r).props
        BY <2>2, <3>5, LoadsAre, StoredAfterIs DEF StoredApplied, LoadFacts
      <4>2. r.type \in {"set", "propertyGone", "deviceGone"}
        BY <3>5, RecordIs DEF StoredApplied, IsTorn
      <4>3. CASE StoredNow.end # "ok"
        <5>1. Stored' = Stored
          BY <4>1, <4>3, ApplyRestores
        <5> QED
          BY <2>3, <5>1, NothingForgotten
      <4>4. CASE StoredNow.end = "ok" /\ r.type = "set"
        <5>1. P!Write(Stored, Stored')
          BY <4>1, <4>4, SetIsWritten
        <5> QED
          BY <2>3, <5>1
      <4>5. CASE StoredNow.end = "ok" /\ r.type \in {"propertyGone", "deviceGone"}
        <5>1. P!Forget(Stored, Stored', Settled)
          BY <3>5, <4>5, DeletedIsForgotten
        <5> QED
          BY <2>3, <5>1
      <4> QED
        BY <4>2, <4>3, <4>4, <4>5
    <3> QED
      BY <2>2, <3>2, <3>3, <3>4, <3>5, StoredAfter
  <2> QED
    BY <2>4, <2>5, <2>6
<1> QED
  BY <1>1, <1>2, AlwaysLasting, PTL DEF Spec, P!Spec, StorageIsPersistent, Costs
----------------------------------------------------------------------------

(* What a thread holds, and who is subscribed.                             *)

AllIn(m, k, v) == \A i \in DOMAIN m.deltas : m.deltas[i][1] = k => m.deltas[i][2] = v

NotifyStep(s, k, g) == s.op = "notify" /\ s.key = k /\ s.group = g
NotifyOf(k, g, v) == [op |-> "notify", key |-> k, group |-> g, value |-> v]
SubscribeStep(k, g) == [op |-> "subscribe", key |-> k, group |-> g]

Subscribed == \A k \in DOMAIN shadow, g \in Group :
                <<k, g>> \in subs \/ SubscribeStep(k, g) \in Steps("handler")

HoldsLatest(s, k, g) ==
  /\ NotifyStep(s, k, g) => s.value = shadow[k][g]
  /\ s.op = "send" /\ SetsIn(s.msg, k, g) => AllIn(s.msg, k, shadow[k][g])

HeldAreLatest == \A k \in DOMAIN shadow, g \in Group : <<k, g>> \notin raced =>
                   \A t \in Thread : \A s \in Steps(t) : HoldsLatest(s, k, g)

LEMMA StepLeft ==
  ASSUME NEW t \in Thread, NEW u \in Thread, NEW X, Goes(u, X), NEW s \in Steps(t)
  PROVE  s \in Steps(t)' \/ (t = u /\ s = Head(todo[u]))
BY DEF Goes

LEMMA StepNew ==
  ASSUME NEW t \in Thread, NEW u \in Thread, NEW X, Goes(u, X), NEW s \in Steps(t)'
  PROVE  s \in Steps(t) \/ (t = u /\ s \in X)
BY DEF Goes

LEMMA SubscribedNext ==
  ASSUME Sound, Subscribed, [Next]_vars
  PROVE  Subscribed'
<1> SUFFICES ASSUME NEW k \in DOMAIN shadow', NEW g \in Group
             PROVE  <<k, g>> \in subs' \/ SubscribeStep(k, g) \in Steps("handler")'
  BY DEF Subscribed, SubscribeStep
<1> DEFINE x == SubscribeStep(k, g)
<1>0. x.op = "subscribe" /\ "handler" \in Thread
  BY StepsAre DEF SubscribeStep
<1> HIDE DEF x
<1>1. ASSUME k \in DOMAIN shadow PROVE <<k, g>> \in subs \/ x \in Steps("handler")
  BY <1>1 DEF Subscribed, x
<1> SUFFICES <<k, g>> \in subs' \/ x \in Steps("handler")'
  BY DEF x
<1>2. CASE CallStep
  <2>1. ASSUME NEW j \in Key, NEW v \in Value, CreateProperty(j, v)
        PROVE  <<k, g>> \in subs' \/ x \in Steps("handler")'
    <3>1. /\ Steps("handler") = {} /\ DOMAIN shadow' = DOMAIN shadow \cup {j} /\ subs' = subs
          /\ Steps("handler")' = [op : {"announce", "subscribe"}, key : {j}, group : Group]
      BY <2>1, CreatePropertySound
    <3>2. CASE k = j
      BY <3>1, <3>2 DEF x, SubscribeStep
    <3> QED
      BY <1>1, <3>1, <3>2
  <2>2. ASSUME NEW t \in Thread, NEW j \in Key, NEW h \in Group, NEW v \in Value, SetValue(t, j, h, v)
        PROVE  <<k, g>> \in subs' \/ x \in Steps("handler")'
    <3>1. /\ Steps(t) = {} /\ DOMAIN shadow' = DOMAIN shadow /\ subs' = subs
          /\ \A u \in Thread \ {t} : Steps(u)' = Steps(u)
      BY <2>2, SetValueSound
    <3> QED
      BY <1>0, <1>1, <3>1
  <2>3. ASSUME NEW j \in Key, RemoveProperty(j) PROVE <<k, g>> \in subs'
    <3>1. Steps("handler") = {} /\ DOMAIN shadow' = DOMAIN shadow \ {j} /\ subs' = {s \in subs : s[1] # j}
      BY <2>3, RemovePropertySound
    <3> QED
      BY <1>1, <3>1
  <2>4. ASSUME NEW d \in Device, DestroyDevice(d) PROVE <<k, g>> \in subs'
    <3>1. Steps("handler") = {} /\ shadow' = shadow /\ subs' = subs
      BY <2>4, DestroyDeviceSound
    <3> QED
      BY <1>1, <3>1
  <2> QED
    BY <1>2, <2>1, <2>2, <2>3, <2>4 DEF CallStep
<1>3. ASSUME NEW t \in Thread, NEW X, Goes(t, X), Head(todo[t]).op # "subscribe",
             k \in DOMAIN shadow, subs' = subs
      PROVE  <<k, g>> \in subs' \/ x \in Steps("handler")'
  BY <1>0, <1>1, <1>3, StepLeft
<1>4. CASE ThreadStep
  <2>1. PICK t \in Thread : \/ Announce(t) \/ Subscribe(t) \/ Notify(t) \/ SendMessage(t)
                            \/ ClearDevice(t) \/ DestroyObject(t)
    BY <1>4 DEF ThreadStep
  <2>2. CASE Announce(t)
    <3>1. SameMem /\ \E X : Goes(t, X)
      BY <2>2, AnnounceSound
    <3>2. \E j \in Key, h \in Group : Head(todo[t]) = [op |-> "announce", key |-> j, group |-> h]
      BY <2>2, AnnounceSound
    <3>3. Head(todo[t]).op # "subscribe"
      BY <3>2
    <3> QED
      BY <1>3, <3>1, <3>3 DEF SameMem
  <2>3. CASE Subscribe(t)
    <3>1. shadow' = shadow /\ Goes(t, {})
      BY <2>3, SubscribeSound
    <3>2. PICK j \in Key, h \in Group :
            /\ Head(todo[t]) = [op |-> "subscribe", key |-> j, group |-> h]
            /\ subs' = IF j \in DOMAIN shadow THEN subs \cup {<<j, h>>} ELSE subs
      BY <2>3, SubscribeSound
    <3>3. CASE x = Head(todo[t])
      <4>1. j = k /\ h = g
        BY <3>2, <3>3 DEF x, SubscribeStep
      <4> QED
        BY <3>1, <3>2, <4>1
    <3>4. CASE x # Head(todo[t])
      <4>1. x \in Steps("handler") => x \in Steps("handler")'
        BY <1>0, <3>1, <3>4, StepLeft
      <4> QED
        BY <1>1, <3>1, <3>2, <4>1
    <3> QED
      BY <3>3, <3>4
  <2>4. CASE Notify(t) \/ SendMessage(t)
    <3>1. SameMem /\ (\E X : Goes(t, X)) /\ Head(todo[t]).op \in {"notify", "send"}
      BY <2>4, NotifySound, SendSound
    <3> QED
      BY <1>3, <3>1 DEF SameMem
  <2>5. CASE ClearDevice(t)
    <3>1. PICK d \in Device :
            /\ Head(todo[t]) = ClearStep(d)
            /\ \/ KeysOf(d, shadow) = {} /\ Goes(t, {}) /\ SameMem
               \/ /\ todo' = todo /\ objects' = objects
                  /\ \E j \in DOMAIN shadow :
                       /\ DOMAIN shadow' = DOMAIN shadow \ {j}
                       /\ \A i \in DOMAIN shadow' : shadow'[i] = shadow[i]
                       /\ subs' = {s \in subs : s[1] # j} /\ raced' = NotRaced(j, Group)
      BY <2>5, ClearSound
    <3>2. CASE Goes(t, {}) /\ SameMem
      <4>1. Head(todo[t]).op # "subscribe"
        BY <3>1 DEF ClearStep
      <4> QED
        BY <1>3, <3>2, <4>1 DEF SameMem
    <3>3. ASSUME todo' = todo, NEW j \in DOMAIN shadow, DOMAIN shadow' = DOMAIN shadow \ {j},
                 subs' = {s \in subs : s[1] # j}
          PROVE  <<k, g>> \in subs' \/ x \in Steps("handler")'
      <4>1. Steps("handler")' = Steps("handler")
        BY <3>3 DEF Steps
      <4> QED
        BY <1>1, <3>3, <4>1
    <3> QED
      BY <3>1, <3>2, <3>3
  <2>6. CASE DestroyObject(t)
    <3>1. /\ shadow' = shadow /\ subs' = subs
          /\ \E d \in Device : Head(todo[t]) = DestroyStep(d)
          /\ \E X : Goes(t, X)
      BY <2>6, DestroySound
    <3>2. Head(todo[t]).op # "subscribe"
      BY <3>1 DEF DestroyStep
    <3> QED
      BY <1>3, <3>1, <3>2
  <2> QED
    BY <2>1, <2>2, <2>3, <2>4, <2>5, <2>6
<1>5. ASSUME SameMem, Steps("handler")' = Steps("handler") PROVE <<k, g>> \in subs' \/ x \in Steps("handler")'
  BY <1>1, <1>5 DEF SameMem
<1>6. CASE StorageStep
  <2>1. SameMem
    BY <1>6, StoReceiveSound, WriteRecordSound, RenameSound, NewLogSound, DumpCompleteSound DEF StorageStep
  <2>2. todo'["handler"] = todo["handler"]
    BY <1>6, StoReceiveSound, WriteRecordSound, RenameSound, NewLogSound, DumpCompleteSound, StepsAre
       DEF StorageStep, Goes
  <2> QED
    BY <1>5, <2>1, <2>2 DEF Steps
<1>7. CASE DumpStep
  <2>1. SameMem
    BY <1>7, LsdReceiveSound, ScanSound DEF DumpStep
  <2>2. todo'["handler"] = todo["handler"]
    BY <1>7, LsdReceiveSound, ScanSound, StepsAre DEF DumpStep, Goes
  <2> QED
    BY <1>5, <2>1, <2>2 DEF Steps
<1>8. CASE StartStep
  <2>1. CASE LoadArchive
    BY <2>1, LoadArchiveSound DEF TookOver
  <2>2. CASE LoadCurrent
    BY <2>2, LoadCurrentSound DEF TookOver
  <2>3. CASE Restart
    BY <2>3, RestartSound
  <2> QED
    BY <1>8, <2>1, <2>2, <2>3 DEF StartStep
<1>9. CASE UNCHANGED vars
  BY <1>5, <1>9 DEF vars, mem, SameMem, Steps
<1> QED
  BY <1>2, <1>4, <1>6, <1>7, <1>8, <1>9, NextIs
\* The value of k in g is what it was, and no race is known of it.
SameValue(k, g) == k \in DOMAIN shadow /\ shadow'[k][g] = shadow[k][g] /\ <<k, g>> \notin raced

LEMMA ValueAfter ==
  ASSUME Sound, Running, NEW k \in DOMAIN shadow', NEW g \in Group, <<k, g>> \notin raced'
  PROVE  \/ SameValue(k, g)
         \/ \E v \in Value : CreateProperty(k, v)
         \/ \E t \in Thread, v \in Value : SetValue(t, k, g, v)
<1>1. CASE CallStep
  <2>1. ASSUME NEW j \in Key, NEW v \in Value, CreateProperty(j, v)
        PROVE  k = j \/ SameValue(k, g)
    <3>1. /\ DOMAIN shadow' = DOMAIN shadow \cup {j} /\ \A i \in DOMAIN shadow : shadow'[i] = shadow[i]
          /\ raced' = raced \cup Races("handler", j)
      BY <2>1, CreatePropertySound
    <3> QED
      BY <3>1 DEF SameValue
  <2>2. ASSUME NEW t \in Thread, NEW j \in Key, NEW h \in Group, NEW v \in Value, SetValue(t, j, h, v)
        PROVE  (k = j /\ g = h) \/ SameValue(k, g)
    <3>0. DOMAIN shadow' = DOMAIN shadow /\ raced' = NotRaced(j, {h}) \cup (Races(t, j) \cap {<<j, h>>})
      BY <2>2, SetValueSound
    <3>1. /\ DOMAIN shadow' = DOMAIN shadow
          /\ <<k, g>> # <<j, h>> => shadow'[k][g] = shadow[k][g]
          /\ raced' = NotRaced(j, {h}) \cup (Races(t, j) \cap {<<j, h>>})
      BY <2>2, <3>0, SetValueSound
    <3>2. <<k, g>> # <<j, h>> => <<k, g>> \notin raced
      BY <3>1 DEF NotRaced
    <3> QED
      BY <3>1, <3>2 DEF SameValue
  <2>3. ASSUME NEW j \in Key, RemoveProperty(j) PROVE SameValue(k, g)
    <3>1. /\ DOMAIN shadow' = DOMAIN shadow \ {j} /\ \A i \in DOMAIN shadow' : shadow'[i] = shadow[i]
          /\ raced' = NotRaced(j, Group)
      BY <2>3, RemovePropertySound
    <3> QED
      BY <3>1 DEF SameValue, NotRaced
  <2>4. ASSUME NEW d \in Device, DestroyDevice(d) PROVE SameValue(k, g)
    BY <2>4, DestroyDeviceSound DEF SameValue
  <2>5. ASSUME NEW j \in Key, NEW v \in Value, CreateProperty(j, v)
        PROVE  SameValue(k, g) \/ \E x \in Value : CreateProperty(k, x)
    BY <2>1, <2>5
  <2>6. ASSUME NEW t \in Thread, NEW j \in Key, NEW h \in Group, NEW v \in Value, SetValue(t, j, h, v)
        PROVE  SameValue(k, g) \/ \E u \in Thread, x \in Value : SetValue(u, k, g, x)
    BY <2>2, <2>6
  <2> QED
    BY <1>1, <2>3, <2>4, <2>5, <2>6 DEF CallStep
<1>2. ASSUME shadow' = shadow, raced' = raced PROVE SameValue(k, g)
  BY <1>2 DEF SameValue
<1>3. CASE ThreadStep
  <2>1. PICK t \in Thread : \/ Announce(t) \/ Subscribe(t) \/ Notify(t) \/ SendMessage(t)
                            \/ ClearDevice(t) \/ DestroyObject(t)
    BY <1>3 DEF ThreadStep
  <2>2. CASE ClearDevice(t)
    <3>1. SameMem \/ \E j \in DOMAIN shadow :
                       /\ DOMAIN shadow' = DOMAIN shadow \ {j}
                       /\ \A i \in DOMAIN shadow' : shadow'[i] = shadow[i]
                       /\ raced' = NotRaced(j, Group)
      BY <2>2, ClearSound
    <3>2. ASSUME NEW j, DOMAIN shadow' = DOMAIN shadow \ {j}, \A i \in DOMAIN shadow' : shadow'[i] = shadow[i],
                 raced' = NotRaced(j, Group)
          PROVE  SameValue(k, g)
      BY <3>2 DEF SameValue, NotRaced
    <3> QED
      BY <1>2, <3>1, <3>2 DEF SameMem
  <2>3. CASE Announce(t) \/ Notify(t) \/ SendMessage(t)
    <3>1. SameMem
      BY <2>3, AnnounceSound, NotifySound, SendSound
    <3> QED
      BY <1>2, <3>1 DEF SameMem
  <2>4. CASE Subscribe(t) \/ DestroyObject(t)
    BY <1>2, <2>4, SubscribeSound, DestroySound
  <2> QED
    BY <2>1, <2>2, <2>3, <2>4
<1>4. CASE StorageStep
  <2>1. SameMem
    BY <1>4, StoReceiveSound, WriteRecordSound, RenameSound, NewLogSound, DumpCompleteSound DEF StorageStep
  <2> QED
    BY <1>2, <2>1 DEF SameMem
<1>5. CASE DumpStep
  <2>1. SameMem
    BY <1>5, LsdReceiveSound, ScanSound DEF DumpStep
  <2> QED
    BY <1>2, <2>1 DEF SameMem
<1> QED
  BY <1>1, <1>3, <1>4, <1>5 DEF Running

\* A value that is new, and not raced, is in no other thread's hands.
LEMMA RacesAre ==
  ASSUME NEW t \in Thread, NEW u \in Thread \ {t}, NEW s \in Steps(u), NEW k, NEW g \in Group,
         NotifyStep(s, k, g) \/ (s.op = "send" /\ SetsIn(s.msg, k, g)) \/ s = SubscribeStep(k, g)
  PROVE  <<k, g>> \in Races(t, k)
<1>1. Carries(s, k, g)
  BY DEF Carries, NotifyStep, SetsIn, SubscribeStep
<1> QED
  BY <1>1 DEF Races, Steps

LEMMA NewValueIsHeld ==
  ASSUME Sound, NEW k \in DOMAIN shadow', NEW g \in Group, <<k, g>> \notin raced',
         \/ \E v \in Value : k \in Key /\ CreateProperty(k, v)
         \/ \E t \in Thread, v \in Value : k \in Key /\ SetValue(t, k, g, v),
         NEW u \in Thread, NEW s \in Steps(u)'
  PROVE  HoldsLatest(s, k, g)'
<1> USE DEF HoldsLatest
<1>1. ASSUME NEW v \in Value, CreateProperty(k, v), k \in Key PROVE HoldsLatest(s, k, g)'
  <2>1. /\ Steps("handler")' = [op : {"announce", "subscribe"}, key : {k}, group : Group]
        /\ \A w \in Thread \ {"handler"} : Steps(w)' = Steps(w)
        /\ raced' = raced \cup Races("handler", k)
    BY <1>1, CreatePropertySound
  <2>2. CASE u = "handler"
    <3>1. s.op \in {"announce", "subscribe"}
      <4>1. \A x \in [op : {"announce", "subscribe"}, key : {k}, group : Group] : x.op \in {"announce", "subscribe"}
        OBVIOUS
      <4> QED
        BY <2>1, <2>2, <4>1
    <3> QED
      BY <3>1 DEF NotifyStep
  <2>3. CASE u # "handler"
    <3>1. ~NotifyStep(s, k, g) /\ ~(s.op = "send" /\ SetsIn(s.msg, k, g))
      BY <2>1, <2>3, RacesAre, StepsAre
    <3> QED
      BY <3>1
  <2> QED
    BY <2>2, <2>3
<1>2. ASSUME NEW t \in Thread, NEW v \in Value, SetValue(t, k, g, v), k \in Key PROVE HoldsLatest(s, k, g)'
  <2>1. /\ Steps(t)' = {[op |-> "notify", key |-> k, group |-> g, value |-> v]}
        /\ \A w \in Thread \ {t} : Steps(w)' = Steps(w)
        /\ raced' = NotRaced(k, {g}) \cup (Races(t, k) \cap {<<k, g>>})
        /\ shadow'[k][g] = v
    BY <1>2, SetValueSound
  <2>2. CASE u = t
    <3>1. s = [op |-> "notify", key |-> k, group |-> g, value |-> v]
      BY <2>1, <2>2
    <3>2. s.op = "notify" /\ s.value = v
      BY <3>1
    <3> QED
      BY <2>1, <3>2 DEF NotifyStep
  <2>3. CASE u # t
    <3>1. ~NotifyStep(s, k, g) /\ ~(s.op = "send" /\ SetsIn(s.msg, k, g))
      BY <2>1, <2>3, RacesAre
    <3> QED
      BY <3>1
  <2> QED
    BY <2>2, <2>3
<1> QED
  BY <1>1, <1>2
LEMMA ValueIsSet ==
  ASSUME Sound, NEW t \in Thread, NEW k \in Key, NEW g \in Group, NEW v \in Value, SetValue(t, k, g, v)
  PROVE  /\ Steps(t)' = {NotifyOf(k, g, v)}
         /\ \A w \in Thread \ {t} : Steps(w)' = Steps(w)
         /\ raced' = NotRaced(k, {g}) \cup (Races(t, k) \cap {<<k, g>>})
         /\ shadow'[k][g] = v
BY SetValueSound DEF NotifyOf

LEMMA HeldStayLatest ==
  ASSUME Sound, HeldAreLatest, Running, NEW k \in DOMAIN shadow', NEW g \in Group, SameValue(k, g),
         NEW u \in Thread, NEW s \in Steps(u)'
  PROVE  HoldsLatest(s, k, g)'
<1> DEFINE v == shadow[k][g]
           Fine(x) == /\ NotifyStep(x, k, g) => x.value = v
                      /\ x.op = "send" /\ SetsIn(x.msg, k, g) => AllIn(x.msg, k, v)
<1>1. shadow'[k][g] = v /\ \A t \in Thread : \A x \in Steps(t) : Fine(x)
  BY DEF SameValue, HeldAreLatest, HoldsLatest
<1> SUFFICES Fine(s)
  BY <1>1 DEF HoldsLatest
<1> HIDE DEF v
<1>2. ASSUME NEW t \in Thread, \A w \in Thread \ {t} : Steps(w)' = Steps(w), \A x \in Steps(t)' : Fine(x)
      PROVE  Fine(s)
  BY <1>1, <1>2
<1>3. ASSUME NEW t \in Thread, NEW X, Goes(t, X), \A x \in X : Fine(x) PROVE Fine(s)
  <2>1. s \in Steps(u) \/ (u = t /\ s \in X)
    BY <1>3, StepNew
  <2> QED
    BY <1>1, <1>3, <2>1
<1>4. \A x : x.op \notin {"notify", "send"} => Fine(x)
  BY DEF NotifyStep
<1>5. \A to, m : m.type # "delta" => Fine(Send(to, m))
  BY SendIs DEF NotifyStep, SetsIn
<1> HIDE DEF Fine
<1>6. CASE CallStep
  <2>1. ASSUME NEW j \in Key, NEW x \in Value, CreateProperty(j, x) PROVE Fine(s)
    <3>1. /\ Steps("handler")' = [op : {"announce", "subscribe"}, key : {j}, group : Group]
          /\ \A w \in Thread \ {"handler"} : Steps(w)' = Steps(w)
      BY <2>1, CreatePropertySound
    <3>2. \A y \in [op : {"announce", "subscribe"}, key : {j}, group : Group] : y.op \notin {"notify", "send"}
      OBVIOUS
    <3>3. \A y \in Steps("handler")' : Fine(y)
      BY <1>4, <3>1, <3>2
    <3>4. "handler" \in Thread
      BY StepsAre
    <3> QED
      BY <1>2, <3>1, <3>3, <3>4
  <2>2. ASSUME NEW t \in Thread, NEW j \in Key, NEW h \in Group, NEW x \in Value, SetValue(t, j, h, x)
        PROVE  Fine(s)
    <3>1. Steps(t)' = {NotifyOf(j, h, x)} /\ \A w \in Thread \ {t} : Steps(w)' = Steps(w)
      BY <2>2, ValueIsSet
    <3>4. j = k /\ h = g => x = v
      <4>1. shadow'[j][h] = x
        BY <2>2, ValueIsSet
      <4> QED
        BY <1>1, <4>1
    <3> DEFINE n == NotifyOf(j, h, x)
    <3>5. n.op = "notify" /\ n.key = j /\ n.group = h /\ n.value = x
      BY DEF NotifyOf
    <3> HIDE DEF n
    <3>2. Fine(n)
      BY <3>4, <3>5 DEF Fine, NotifyStep
    <3>3. \A y \in Steps(t)' : Fine(y)
      BY <3>1, <3>2 DEF n
    <3> QED
      BY <1>2, <3>1, <3>3
  <2>3. ASSUME NEW j \in Key, RemoveProperty(j) PROVE Fine(s)
    <3>1. /\ Steps("handler")' = {Send("sto", [type |-> "propertyDeleted", key |-> j])}
          /\ \A w \in Thread \ {"handler"} : Steps(w)' = Steps(w)
      BY <2>3, RemovePropertySound
    <3>2. [type |-> "propertyDeleted", key |-> j].type # "delta"
      OBVIOUS
    <3> QED
      BY <1>2, <1>5, <3>1, <3>2, StepsAre
  <2>4. ASSUME NEW d \in Device, DestroyDevice(d) PROVE Fine(s)
    <3>1. /\ Steps("handler")' = {ClearStep(d), DestroyStep(d)}
          /\ \A w \in Thread \ {"handler"} : Steps(w)' = Steps(w)
      BY <2>4, DestroyDeviceSound
    <3>2. ClearStep(d).op = "clear" /\ DestroyStep(d).op = "destroy"
      BY DEF ClearStep, DestroyStep
    <3> QED
      BY <1>2, <1>4, <3>1, <3>2, StepsAre
  <2> QED
    BY <1>6, <2>1, <2>2, <2>3, <2>4 DEF CallStep
<1>7. CASE ThreadStep
  <2>1. PICK t \in Thread : \/ Announce(t) \/ Subscribe(t) \/ Notify(t) \/ SendMessage(t)
                            \/ ClearDevice(t) \/ DestroyObject(t)
    BY <1>7 DEF ThreadStep
  <2>2. ASSUME NEW j \in Key, NEW h \in Group, NEW x \in Value, j = k /\ h = g => x = v,
               Goes(t, {Send("sto", Delta(h, <<<<j, x>>>>))})
        PROVE  Fine(s)
    <3> DEFINE m == Delta(h, <<<<j, x>>>>)
    <3>1. m.group = h /\ DOMAIN m.deltas = {1} /\ m.deltas[1] = <<j, x>>
      BY OneDeltaTyped
    <3> HIDE DEF m
    <3>2. SetsIn(m, k, g) => AllIn(m, k, v)
      BY <2>2, <3>1 DEF SetsIn, AllIn
    <3>3. Fine(Send("sto", m))
      BY <3>2, SendIs DEF Fine, NotifyStep
    <3> QED
      BY <1>3, <2>2, <3>3 DEF m
  <2>3. CASE Announce(t)
    <3>1. PICK j \in Key, h \in Group :
            \/ j \notin DOMAIN shadow /\ Goes(t, {})
            \/ /\ j \in DOMAIN shadow /\ shadow[j][h] \in Value
               /\ Goes(t, {Send("sto", Delta(h, <<<<j, shadow[j][h]>>>>))})
      BY <2>3, AnnounceSound
    <3>2. CASE Goes(t, {})
      BY <1>3, <3>2
    <3>3. CASE /\ j \in DOMAIN shadow /\ shadow[j][h] \in Value
               /\ Goes(t, {Send("sto", Delta(h, <<<<j, shadow[j][h]>>>>))})
      <4>1. j = k /\ h = g => shadow[j][h] = v
        BY DEF v
      <4> QED
        BY <2>2, <3>3, <4>1
    <3> QED
      BY <3>1, <3>2, <3>3
  <2>4. CASE Notify(t)
    <3>1. PICK j \in Key, h \in Group, x \in Value :
            /\ Head(todo[t]).op = "notify" /\ Head(todo[t]).key = j
            /\ Head(todo[t]).group = h /\ Head(todo[t]).value = x
            /\ \/ <<j, h>> \notin subs /\ Goes(t, {})
               \/ <<j, h>> \in subs /\ Goes(t, {Send("sto", Delta(h, <<<<j, x>>>>))})
      BY <2>4, NotifySound
    <3>2. Head(todo[t]) \in Steps(t)
      <4>1. \E X : Goes(t, X)
        BY <3>1
      <4> QED
        BY <4>1 DEF Goes
    <3>3. j = k /\ h = g => x = v
      <4>1. Fine(Head(todo[t]))
        BY <1>1, <3>2
      <4> QED
        BY <3>1, <4>1 DEF Fine, NotifyStep
    <3> QED
      BY <1>3, <2>2, <3>1, <3>3
  <2>5. CASE Subscribe(t) \/ SendMessage(t)
    <3>1. Goes(t, {})
      BY <2>5, SubscribeSound, SendSound
    <3> QED
      BY <1>3, <3>1
  <2>6. CASE ClearDevice(t)
    <3>1. Goes(t, {}) \/ todo' = todo
      BY <2>6, ClearSound
    <3>2. CASE todo' = todo
      BY <1>1, <3>2 DEF Steps
    <3> QED
      BY <1>3, <3>1, <3>2
  <2>7. CASE DestroyObject(t)
    <3>1. PICK d \in Device : Goes(t, {Send("sto", [type |-> "thingDeleted", dev |-> d])})
      BY <2>7, DestroySound
    <3>2. [type |-> "thingDeleted", dev |-> d].type # "delta"
      OBVIOUS
    <3> QED
      BY <1>3, <1>5, <3>1, <3>2
  <2> QED
    BY <2>1, <2>3, <2>4, <2>5, <2>6, <2>7
<1>8. CASE StorageStep
  <2>1. CASE StoReceive
    <3> DEFINE m == Head(queue["sto"])
    <3>1. /\ \A w \in Thread \ {"sto"} : Steps(w)' = Steps(w)
          /\ m \in StoMessage /\ m.type # "dumpCompleted" /\ todo'["sto"] = Handling(m)
      BY <2>1, StoReceiveSound
    <3> HIDE DEF m
    <3>2. \A x \in Steps("sto")' : x.op \in {"record", "consolidate"}
      BY <3>1, HandlingAsksNothing DEF Steps
    <3> QED
      BY <1>2, <1>4, <3>1, <3>2, StepsAre
  <2>2. CASE WriteRecord
    BY <1>3, <2>2, WriteRecordSound, StepsAre
  <2>3. CASE Rename
    <3>1. Fine(NewLogStep)
      BY <1>4 DEF NewLogStep
    <3> QED
      BY <1>3, <2>3, <3>1, RenameSound, StepsAre
  <2>4. CASE NewLog
    <3>1. Fine(Send("lsd", DumpRequest))
      BY <1>5 DEF DumpRequest
    <3> QED
      BY <1>3, <2>4, <3>1, NewLogSound, StepsAre
  <2>5. CASE DumpComplete
    BY <1>1, <2>5, DumpCompleteSound DEF Steps
  <2> QED
    BY <1>8, <2>1, <2>2, <2>3, <2>4, <2>5 DEF StorageStep
<1>9. CASE DumpStep
  <2>1. CASE LsdReceive
    <3>1. PICK order \in Seq(Device) : ToSet(order) = Device /\ todo'["lsd"] = DumpSteps(order)
      BY <2>1, LsdReceiveSound
    <3>2. \A x \in Steps("lsd")' : x.op = "scan" \/ x = CompletedStep
      BY <3>1, DumpStepsAre DEF Steps
    <3>3. Fine(CompletedStep)
      BY <1>5 DEF CompletedStep, DumpCompleted
    <3>4. \A w \in Thread \ {"lsd"} : Steps(w)' = Steps(w)
      BY <2>1, LsdReceiveSound
    <3> QED
      BY <1>2, <1>4, <3>2, <3>3, <3>4, StepsAre
  <2>2. CASE ScanDevice
    <3>1. PICK h \in Group, q \in Seq(LsdSteps) :
            /\ \A x \in ToSet(q) : \E p \in Seq(DOMAIN shadow) : x = Send("sto", ScanMessage(h, p))
            /\ Goes("lsd", ToSet(q))
      BY <2>2, ScanSound
    <3>2. ASSUME NEW keys \in Seq(DOMAIN shadow)
          PROVE  Fine(Send("sto", ScanMessage(h, keys)))
      <4> DEFINE m == ScanMessage(h, keys)
      <4>1. /\ m.group = h /\ DOMAIN m.deltas = DOMAIN keys
            /\ \A i \in DOMAIN keys : m.deltas[i][1] = keys[i] /\ m.deltas[i][2] = shadow[keys[i]][h]
        BY ScanMessageIs DEF Sound, Typed
      <4> HIDE DEF m
      <4>2. SetsIn(m, k, g) => AllIn(m, k, v)
        BY <4>1 DEF SetsIn, AllIn, v
      <4>3. Fine(Send("sto", m))
        BY <4>2, SendIs DEF Fine, NotifyStep
      <4> QED
        BY <4>3 DEF m
    <3> QED
      BY <1>3, <3>1, <3>2, StepsAre
  <2> QED
    BY <1>9, <2>1, <2>2 DEF DumpStep
<1> QED
  BY <1>6, <1>7, <1>8, <1>9 DEF Running

LEMMA HeldAreLatestNext ==
  ASSUME Sound, HeldAreLatest, [Next]_vars
  PROVE  HeldAreLatest'
<1> SUFFICES ASSUME NEW k \in DOMAIN shadow', NEW g \in Group, <<k, g>> \notin raced',
                    NEW t \in Thread, NEW s \in Steps(t)'
             PROVE  HoldsLatest(s, k, g)'
  BY DEF HeldAreLatest
<1>1. CASE Running
  <2>1. k \in Key
    <3>1. Sound'
      BY SoundNext
    <3>2. DOMAIN shadow' \subseteq Key
      BY <3>1, PropsAre DEF Sound, Typed, MemTyped, Props, Key, Group
    <3> QED
      BY <3>2
  <2> QED
    BY <1>1, <2>1, ValueAfter, HeldStayLatest, NewValueIsHeld
<1>2. CASE StartStep
  BY <1>2, StartIsEmpty
<1>3. CASE UNCHANGED vars
  BY <1>3 DEF vars, mem, HeldAreLatest, HoldsLatest, Steps
<1> QED
  BY <1>1, <1>2, <1>3, NextIs DEF Running
----------------------------------------------------------------------------
(* The latest value of a property is in some thread's hands, or in the     *)
(* queue with nothing about it behind, or about to be written; or nothing  *)
(* that could change what is stored of it is on its way.                   *)
HeldStep(s, k, g) == Carry(s, k, g) \/ (NotifyStep(s, k, g) /\ <<k, g>> \in subs)
Held(k, g)        == \E t \in Thread : \E s \in Steps(t) : HeldStep(s, k, g)

LatestSetters(k, g) == {m \in Setters(k, g) : AllIn(m, k, shadow[k][g])}
QueuedLatest(k, g)  == LastIn(queue["sto"], LatestSetters(k, g), Deleters(k) \cup Setters(k, g))
QueuedSet(k, g)     == \E m \in Messages("sto") : SetsIn(m, k, g)
WritingSet(k, g)    == \E s \in Steps("sto") : IsSet(s, k, g)

WritingLatest(k, g) ==
  /\ WritingSet(k, g) /\ ~QueuedDeletion(k) /\ ~QueuedSet(k, g)
  /\ \A s \in Steps("sto") : IsSet(s, k, g) => s.rec.value = shadow[k][g]
Rested(k, g)      == Kept(k) /\ ~QueuedSet(k, g) /\ ~WritingSet(k, g)
LatestComes(k, g) == Held(k, g) \/ QueuedLatest(k, g) \/ WritingLatest(k, g)

WrittenLatest(k, g) ==
  WriteRecord /\ \E r \in Record : /\ LogsAppended(r) /\ r.type = "set" /\ r.key = k /\ r.group = g
                                   /\ r.value = shadow[k][g]
\* What no step loses of the latest value.
LatestOn(k, g) ==
  /\ LatestComes(k, g) => LatestComes(k, g)' \/ (Rested(k, g)' /\ WrittenLatest(k, g))
  /\ Rested(k, g) => LatestComes(k, g)' \/ Rested(k, g)'

(* A subscription lasts as long as its property.                           *)
LEMMA SubscriptionStays ==
  ASSUME Sound, Running, NEW k \in DOMAIN shadow', NEW g \in Group, <<k, g>> \in subs
  PROVE  <<k, g>> \in subs'
<1>1. CASE CallStep
  <2>1. ASSUME NEW j \in Key, NEW v \in Value, CreateProperty(j, v) PROVE <<k, g>> \in subs'
    BY <2>1, CreatePropertySound
  <2>2. ASSUME NEW t \in Thread, NEW j \in Key, NEW h \in Group, NEW v \in Value, SetValue(t, j, h, v)
        PROVE  <<k, g>> \in subs'
    BY <2>2 DEF SetValue
  <2>3. ASSUME NEW j \in Key, RemoveProperty(j) PROVE <<k, g>> \in subs'
    <3>1. DOMAIN shadow' = DOMAIN shadow \ {j} /\ subs' = {s \in subs : s[1] # j}
      BY <2>3, RemovePropertySound
    <3> QED
      BY <3>1
  <2>4. ASSUME NEW d \in Device, DestroyDevice(d) PROVE <<k, g>> \in subs'
    BY <2>4, DestroyDeviceSound
  <2> QED
    BY <1>1, <2>1, <2>2, <2>3, <2>4 DEF CallStep
<1>2. CASE ThreadStep
  <2>1. PICK t \in Thread : \/ Announce(t) \/ Subscribe(t) \/ Notify(t) \/ SendMessage(t)
                            \/ ClearDevice(t) \/ DestroyObject(t)
    BY <1>2 DEF ThreadStep
  <2>2. CASE Announce(t) \/ Notify(t) \/ SendMessage(t)
    BY <2>2, AnnounceSound, NotifySound, SendSound DEF SameMem
  <2>3. CASE Subscribe(t)
    <3>1. PICK j \in Key, h \in Group : subs' = IF j \in DOMAIN shadow THEN subs \cup {<<j, h>>} ELSE subs
      BY <2>3, SubscribeSound
    <3> QED
      BY <3>1
  <2>4. CASE ClearDevice(t)
    <3>1. SameMem \/ \E j \in DOMAIN shadow : /\ DOMAIN shadow' = DOMAIN shadow \ {j}
                                              /\ subs' = {s \in subs : s[1] # j}
      BY <2>4, ClearSound
    <3>2. ASSUME NEW j \in DOMAIN shadow, DOMAIN shadow' = DOMAIN shadow \ {j}, subs' = {s \in subs : s[1] # j}
          PROVE  <<k, g>> \in subs'
      BY <3>2
    <3> QED
      BY <3>1, <3>2 DEF SameMem
  <2>5. CASE DestroyObject(t)
    BY <2>5, DestroySound
  <2> QED
    BY <2>1, <2>2, <2>3, <2>4, <2>5
<1>3. CASE StorageStep
  BY <1>3, StoReceiveSound, WriteRecordSound, RenameSound, NewLogSound, DumpCompleteSound DEF StorageStep, SameMem
<1>4. CASE DumpStep
  BY <1>4, LsdReceiveSound, ScanSound DEF DumpStep, SameMem
<1> QED
  BY <1>1, <1>2, <1>3, <1>4 DEF Running

(* What a thread holds of the latest value it keeps or hands on.           *)
LEMMA HeldStays ==
  ASSUME NEW k, NEW g, <<k, g>> \in subs => <<k, g>> \in subs', NEW t \in Thread,
         \A u \in Thread \ {t} : Steps(u)' = Steps(u),
         \A s \in Steps(t) : HeldStep(s, k, g) => s \in Steps(t)' \/ \E x \in Steps(t)' : Carry(x, k, g),
         Held(k, g)
  PROVE  Held(k, g)'
<1>1. PICK u \in Thread : \E y \in Steps(u) : HeldStep(y, k, g)
  BY DEF Held
<1>0. PICK s \in Steps(u) : HeldStep(s, k, g)
  BY <1>1
<1>2. \A x : (HeldStep(x, k, g) => HeldStep(x, k, g)') /\ (Carry(x, k, g) => HeldStep(x, k, g)')
  BY DEF HeldStep
<1>3. CASE u = t
  BY <1>0, <1>2, <1>3 DEF Held
<1>4. CASE u # t
  BY <1>0, <1>2, <1>4 DEF Held
<1> QED
  BY <1>3, <1>4

LEMMA HeldHandedOn ==
  ASSUME NEW k, NEW g, <<k, g>> \in subs => <<k, g>> \in subs', NEW t \in Thread, NEW X, Goes(t, X),
         HeldStep(Head(todo[t]), k, g) => \E x \in X : Carry(x, k, g),
         Held(k, g)
  PROVE  Held(k, g)'
<1>1. \A u \in Thread \ {t} : Steps(u)' = Steps(u)
  BY DEF Goes
<1>2. PICK rest : Steps(t) = {Head(todo[t])} \cup rest /\ Steps(t)' = X \cup rest
  BY DEF Goes
<1>3. \A s \in Steps(t) : HeldStep(s, k, g) => s \in Steps(t)' \/ \E x \in Steps(t)' : Carry(x, k, g)
  BY <1>2
<1> QED
  BY <1>1, <1>3, HeldStays
(* Handling a message writes the values in it.                             *)
LEMMA HandlingSets ==
  ASSUME NEW m \in StoMessage, m.type # "dumpCompleted", NEW s \in ToSet(Handling(m)), NEW k, NEW g, IsSet(s, k, g)
  PROVE  SetsIn(m, k, g) /\ (\A v : AllIn(m, k, v) => s.rec.value = v)
<1>1. CASE m.type = "delta"
  <2>1. Handling(m) = Writes(m) \o <<[op |-> "consolidate"]>> /\ m \in DeltaMessage
    BY <1>1, HandlingIs, MessageIs
  <2>2. ToSet(Handling(m))
          = {RecordStep(SetRecord(m.deltas[i][1], m.group, m.deltas[i][2])) : i \in DOMAIN m.deltas}
              \cup {[op |-> "consolidate"]}
    BY <2>1, WritesTyped
  <2>3. s # [op |-> "consolidate"]
    BY DEF IsSet
  <2>4. PICK i \in DOMAIN m.deltas : s = RecordStep(SetRecord(m.deltas[i][1], m.group, m.deltas[i][2]))
    BY <2>2, <2>3
  <2>5. s.rec.key = m.deltas[i][1] /\ s.rec.group = m.group /\ s.rec.value = m.deltas[i][2]
    BY <2>4 DEF RecordStep, SetRecord
  <2> QED
    BY <1>1, <2>5 DEF IsSet, SetsIn, AllIn
<1>2. CASE m.type = "propertyDeleted"
  <2>1. ToSet(Handling(m)) = {RecordStep(PropertyGone(m.key))}
    BY <1>2, HandlingIs DEF ToSet
  <2>2. RecordStep(PropertyGone(m.key)).rec.type = "propertyGone"
    BY DEF RecordStep, PropertyGone
  <2> QED
    BY <2>1, <2>2 DEF IsSet
<1>3. CASE m.type = "thingDeleted"
  <2>1. ToSet(Handling(m)) = {RecordStep(DeviceGone(m.dev))}
    BY <1>3, HandlingIs DEF ToSet
  <2>2. RecordStep(DeviceGone(m.dev)).rec.type = "deviceGone"
    BY DEF RecordStep, DeviceGone
  <2> QED
    BY <2>1, <2>2 DEF IsSet
<1> QED
  BY <1>1, <1>2, <1>3, MessageIs

LEMMA SameSetters ==
  ASSUME NEW k, NEW g, shadow'[k][g] = shadow[k][g]
  PROVE  /\ LatestSetters(k, g)' = LatestSetters(k, g)
         /\ Setters(k, g)' = Setters(k, g) /\ Deleters(k)' = Deleters(k)
BY DEF LatestSetters, Setters, Deleters, StoMessage, DeltaMessage, Deletion, DumpCompleted

(* What the storage handler and its queue hold, when neither changes.      *)
LEMMA StorageStays ==
  ASSUME NEW k, NEW g, shadow'[k][g] = shadow[k][g], queue'["sto"] = queue["sto"],
         \A s : s.op = "record" => (s \in Steps("sto")' <=> s \in Steps("sto"))
  PROVE  /\ QueuedLatest(k, g) => QueuedLatest(k, g)'
         /\ WritingLatest(k, g) => WritingLatest(k, g)'
         /\ Rested(k, g) => Rested(k, g)'
<1>1. QueuedLatest(k, g) => QueuedLatest(k, g)'
  BY SameSetters DEF QueuedLatest
<1>2. QueuedDeletion(k)' = QueuedDeletion(k) /\ QueuedSet(k, g)' = QueuedSet(k, g)
  BY DEF QueuedDeletion, QueuedSet, Messages
<1>3. Erasing(k)' <=> Erasing(k)
  BY DEF Erasing
<1>4. WritingSet(k, g)' <=> WritingSet(k, g)
  BY DEF WritingSet, IsSet
<1>5. WritingLatest(k, g) => WritingLatest(k, g)'
  BY <1>2, <1>4 DEF WritingLatest, IsSet
<1> QED
  BY <1>1, <1>2, <1>3, <1>4, <1>5 DEF Rested, Kept

LEMMA NothingLost ==
  ASSUME NEW k, NEW g, Held(k, g) => Held(k, g)',
         QueuedLatest(k, g) => QueuedLatest(k, g)' \/ WritingLatest(k, g)',
         WritingLatest(k, g) => WritingLatest(k, g)' \/ (Rested(k, g)' /\ WrittenLatest(k, g)),
         Rested(k, g) => Rested(k, g)'
  PROVE  LatestOn(k, g)
BY DEF LatestOn, LatestComes
(* A client's call begins something of its own.                            *)
LEMMA CallKeepsLatest ==
  ASSUME Sound, CallStep, NEW k \in DOMAIN shadow', NEW g \in Group, SameValue(k, g)
  PROVE  LatestOn(k, g)
<1>1. <<k, g>> \in subs => <<k, g>> \in subs'
  BY SubscriptionStays DEF Running
<1>2. SUFFICES \E t \in Client : /\ Steps(t) = {} /\ \A u \in Thread \ {t} : Steps(u)' = Steps(u)
                                 /\ queue' = queue
  <2>1. PICK t \in Client : /\ Steps(t) = {} /\ \A u \in Thread \ {t} : Steps(u)' = Steps(u)
                            /\ queue' = queue
    BY <1>2
  <2>2. Held(k, g) => Held(k, g)'
    BY <1>1, <2>1, HeldStays, StepsAre
  <2>3. Steps("sto")' = Steps("sto")
    BY <2>1, StepsAre
  <2> QED
    BY <2>1, <2>2, <2>3, StorageStays, NothingLost DEF SameValue
<1>3. ASSUME NEW j \in Key, NEW v \in Value, CreateProperty(j, v)
      PROVE  Steps("handler") = {} /\ (\A u \in Thread \ {"handler"} : Steps(u)' = Steps(u)) /\ queue' = queue
  BY <1>3, CreatePropertySound
<1>4. ASSUME NEW t \in Thread, NEW j \in Key, NEW h \in Group, NEW v \in Value, SetValue(t, j, h, v)
      PROVE  t \in Client /\ Steps(t) = {} /\ (\A u \in Thread \ {t} : Steps(u)' = Steps(u)) /\ queue' = queue
  BY <1>4, SetValueSound
<1>5. ASSUME NEW j \in Key, RemoveProperty(j)
      PROVE  Steps("handler") = {} /\ (\A u \in Thread \ {"handler"} : Steps(u)' = Steps(u)) /\ queue' = queue
  BY <1>5, RemovePropertySound
<1>6. ASSUME NEW d \in Device, DestroyDevice(d)
      PROVE  Steps("handler") = {} /\ (\A u \in Thread \ {"handler"} : Steps(u)' = Steps(u)) /\ queue' = queue
  BY <1>6, DestroyDeviceSound
<1> QED
  BY <1>3, <1>4, <1>5, <1>6, StepsAre DEF CallStep

(* The first step of a thread, other than the storage handler's, gives way *)
(* and keeps what it held.                                                 *)
LEMMA HandingOnLatest ==
  ASSUME NEW k \in DOMAIN shadow', NEW g \in Group, SameValue(k, g), <<k, g>> \in subs => <<k, g>> \in subs',
         NEW t \in Thread \ {"sto"}, NEW X, Goes(t, X), queue'["sto"] = queue["sto"],
         HeldStep(Head(todo[t]), k, g) => \E x \in X : Carry(x, k, g)
  PROVE  LatestOn(k, g)
<1>1. Held(k, g) => Held(k, g)'
  BY HeldHandedOn
<1>2. Steps("sto")' = Steps("sto")
  BY StepsAre DEF Goes
<1> QED
  BY <1>1, <1>2, StorageStays, NothingLost DEF SameValue

LEMMA ClientKeepsLatest ==
  ASSUME Sound, Running, NEW t \in Thread,
         Announce(t) \/ Subscribe(t) \/ Notify(t) \/ ClearDevice(t) \/ DestroyObject(t),
         NEW k \in DOMAIN shadow', NEW g \in Group, SameValue(k, g)
  PROVE  LatestOn(k, g)
<1>1. <<k, g>> \in subs => <<k, g>> \in subs'
  BY SubscriptionStays
<1>2. ASSUME NEW j \in Key, NEW h \in Group, NEW v PROVE Carry(Send("sto", Delta(h, <<<<j, v>>>>)), j, h)
  <2> DEFINE m == Delta(h, <<<<j, v>>>>)
  <2>1. m.type = "delta" /\ m.group = h /\ DOMAIN m.deltas = {1} /\ m.deltas[1] = <<j, v>>
    BY DEF Delta
  <2>2. SetsIn(m, j, h)
    <3> HIDE DEF m
    <3> QED
      BY <2>1 DEF SetsIn
  <2> HIDE DEF m
  <2>3. Carry(Send("sto", m), j, h)
    BY <2>2, SendIs DEF Carry
  <2> QED
    BY <2>3 DEF m
<1>3. ASSUME NEW X, Goes(t, X), t = "handler" \/ t = "cloud", queue' = queue,
             HeldStep(Head(todo[t]), k, g) => \E x \in X : Carry(x, k, g)
      PROVE  LatestOn(k, g)
  BY <1>1, <1>3, HandingOnLatest, StepsAre
<1>4. CASE Announce(t)
  <2>1. t = "handler" /\ queue' = queue
    BY <1>4, AnnounceSound
  <2>2. PICK j \in Key, h \in Group :
          /\ Head(todo[t]) = [op |-> "announce", key |-> j, group |-> h]
          /\ \/ j \notin DOMAIN shadow /\ Goes(t, {})
             \/ /\ j \in DOMAIN shadow /\ shadow[j][h] \in Value
                /\ Goes(t, {Send("sto", Delta(h, <<<<j, shadow[j][h]>>>>))})
    BY <1>4, AnnounceSound
  <2>3. HeldStep(Head(todo[t]), k, g) => k = j /\ g = h
    BY <2>2 DEF HeldStep, Carry, NotifyStep
  <2>4. CASE j \notin DOMAIN shadow /\ Goes(t, {})
    BY <1>3, <2>1, <2>3, <2>4 DEF SameValue
  <2>5. CASE /\ j \in DOMAIN shadow /\ shadow[j][h] \in Value
             /\ Goes(t, {Send("sto", Delta(h, <<<<j, shadow[j][h]>>>>))})
    BY <1>2, <1>3, <2>1, <2>3, <2>5
  <2> QED
    BY <2>2, <2>4, <2>5
<1>5. CASE Subscribe(t)
  <2>1. t = "handler" /\ queue' = queue /\ Goes(t, {})
    BY <1>5, SubscribeSound
  <2>2. \E j \in Key, h \in Group : Head(todo[t]) = [op |-> "subscribe", key |-> j, group |-> h]
    BY <1>5, SubscribeSound
  <2>3. ~HeldStep(Head(todo[t]), k, g)
    BY <2>2 DEF HeldStep, Carry, NotifyStep
  <2> QED
    BY <1>3, <2>1, <2>3
<1>6. CASE Notify(t)
  <2>1. t \in Client /\ queue' = queue
    BY <1>6, NotifySound
  <2>2. PICK j \in Key, h \in Group, v \in Value :
          /\ Head(todo[t]).op = "notify" /\ Head(todo[t]).key = j
          /\ Head(todo[t]).group = h /\ Head(todo[t]).value = v
          /\ \/ <<j, h>> \notin subs /\ Goes(t, {})
             \/ <<j, h>> \in subs /\ Goes(t, {Send("sto", Delta(h, <<<<j, v>>>>))})
    BY <1>6, NotifySound
  <2>3. HeldStep(Head(todo[t]), k, g) => k = j /\ g = h /\ <<k, g>> \in subs
    BY <2>2 DEF HeldStep, Carry, NotifyStep
  <2>4. CASE <<j, h>> \notin subs /\ Goes(t, {})
    BY <1>3, <2>1, <2>3, <2>4, StepsAre
  <2>5. CASE <<j, h>> \in subs /\ Goes(t, {Send("sto", Delta(h, <<<<j, v>>>>))})
    BY <1>2, <1>3, <2>1, <2>3, <2>5, StepsAre
  <2> QED
    BY <2>2, <2>4, <2>5
<1>7. CASE ClearDevice(t)
  <2>1. t = "handler" /\ queue' = queue /\ (Goes(t, {}) \/ todo' = todo) /\ Head(todo[t]).op = "clear"
    BY <1>7, ClearSound
  <2>2. CASE Goes(t, {})
    BY <1>3, <2>1, <2>2 DEF HeldStep, Carry, NotifyStep
  <2>3. CASE todo' = todo
    <3>1. \A u \in Thread : Steps(u)' = Steps(u)
      BY <2>3 DEF Steps
    <3>2. Held(k, g) => Held(k, g)'
      BY <1>1, <3>1 DEF Held, HeldStep
    <3> QED
      BY <2>1, <3>1, <3>2, StorageStays, NothingLost, StepsAre DEF SameValue
  <2> QED
    BY <2>1, <2>2, <2>3
<1>8. CASE DestroyObject(t)
  <2>1. /\ t = "handler" /\ queue' = queue /\ Head(todo[t]).op = "destroy"
        /\ \E X : Goes(t, X)
    BY <1>8, DestroySound
  <2> QED
    BY <1>3, <2>1 DEF HeldStep, Carry, NotifyStep
<1> QED
  BY <1>4, <1>5, <1>6, <1>7, <1>8
(* What is sent of the latest value is last in the queue.                  *)
LEMMA SendKeepsLatest ==
  ASSUME Sound, Running, HeldAreLatest, NEW t \in Thread \ {"sto"}, SendMessage(t),
         NEW k \in DOMAIN shadow', NEW g \in Group, SameValue(k, g)
  PROVE  LatestOn(k, g)
<1> DEFINE m == Head(todo[t]).msg
           X == LatestSetters(k, g)
           Y == Deleters(k) \cup Setters(k, g)
<1>1. /\ m \in StoMessage /\ queue["sto"] \in Seq(StoMessage) /\ Head(todo[t]).op = "send"
      /\ queue'["sto"] = Append(queue["sto"], m) /\ Messages("sto")' = Messages("sto") \cup {m}
      /\ ~Deletes(m, k)
  BY SentIs DEF SameValue
<1>2. Goes(t, {}) /\ Head(todo[t]) \in Steps(t) /\ shadow' = shadow
  BY SendSound DEF SameMem
<1>3. Steps("sto")' = Steps("sto")
  BY <1>2, StepsAre DEF Goes
<1>4. X' = X /\ Y' = Y
  BY <1>2, SameSetters
<1>5. CASE SetsIn(m, k, g)
  <2>1. AllIn(m, k, shadow[k][g])
    BY <1>1, <1>2, <1>5 DEF HeldAreLatest, HoldsLatest, SameValue
  <2>2. m \in X
    BY <1>1, <1>5, <2>1 DEF LatestSetters, Setters
  <2> HIDE DEF m, X, Y
  <2>3. LastIn(Append(queue["sto"], m), X, Y)
    BY <1>1, <2>2, LastAppended
  <2>4. QueuedLatest(k, g)'
    BY <1>1, <1>4, <2>3 DEF QueuedLatest, X, Y
  <2> QED
    BY <2>4 DEF LatestOn, LatestComes
<1>6. CASE ~SetsIn(m, k, g)
  <2>1. ~HeldStep(Head(todo[t]), k, g)
    BY <1>1, <1>6 DEF HeldStep, Carry, NotifyStep
  <2>2. Held(k, g) => Held(k, g)'
    BY <1>2, <2>1, SubscriptionStays, HeldHandedOn
  <2>3. m \notin Y
    BY <1>1, <1>6 DEF Deleters, Setters
  <2> HIDE DEF m, X, Y
  <2>4. LastIn(queue["sto"], X, Y) => LastIn(Append(queue["sto"], m), X, Y)
    BY <1>1, <2>3, LastAppended
  <2>5. QueuedLatest(k, g) => QueuedLatest(k, g)'
    BY <1>1, <1>4, <2>4 DEF QueuedLatest, X, Y
  <2>6. QueuedDeletion(k)' = QueuedDeletion(k) /\ QueuedSet(k, g)' = QueuedSet(k, g)
    BY <1>1, <1>6 DEF QueuedDeletion, QueuedSet
  <2>7. WritingSet(k, g)' = WritingSet(k, g) /\ Erasing(k)' = Erasing(k)
    BY <1>3 DEF WritingSet, Erasing
  <2>8. WritingLatest(k, g) => WritingLatest(k, g)'
    BY <1>2, <1>3, <2>6, <2>7 DEF WritingLatest
  <2>9. Rested(k, g) => Rested(k, g)'
    BY <2>6, <2>7 DEF Rested, Kept
  <2> QED
    BY <2>2, <2>5, <2>8, <2>9, NothingLost
<1> QED
  BY <1>5, <1>6

(* The storage handler holds nothing for others, and the dump's thread     *)
(* scans or sends.                                                         *)
LEMMA StoHoldsNothing ==
  ASSUME Sound, NEW k, NEW g
  PROVE  \A s \in Steps("sto") : ~HeldStep(s, k, g)
<1> SUFFICES ASSUME NEW s \in Steps("sto") PROVE ~HeldStep(s, k, g)
  OBVIOUS
<1>1. TodoTyped
  BY DEF Sound, Typed
<1>2. s \in StepsOf("sto") /\ "sto" \in Thread /\ "sto" \notin Client
  BY <1>1, StepsTyped, StepsAre
<1>3. s.op # "notify"
  BY <1>2, StepsAre DEF StoSteps, Recording, NewLogStep, Send
<1> QED
  BY <1>1, <1>3, StoCarriesNothing DEF HeldStep, NotifyStep

LEMMA StoreKeepsHeld ==
  ASSUME Sound, NEW k, NEW g, <<k, g>> \in subs => <<k, g>> \in subs',
         \A u \in Thread \ {"sto"} : Steps(u)' = Steps(u), Held(k, g)
  PROVE  Held(k, g)'
BY StoHoldsNothing, HeldStays, StepsAre

LEMMA DumpKeepsLatest ==
  ASSUME Sound, Running, DumpStep, NEW k \in DOMAIN shadow', NEW g \in Group, SameValue(k, g)
  PROVE  LatestOn(k, g)
<1>1. <<k, g>> \in subs => <<k, g>> \in subs'
  BY SubscriptionStays
<1>2. CASE LsdReceive
  <2>1. /\ queue'["sto"] = queue["sto"] /\ Steps("lsd") = {}
        /\ \A u \in Thread \ {"lsd"} : Steps(u)' = Steps(u)
    BY <1>2, LsdReceiveSound
  <2>2. Held(k, g) => Held(k, g)'
    BY <1>1, <2>1, HeldStays, StepsAre
  <2>3. Steps("sto")' = Steps("sto")
    BY <2>1, StepsAre
  <2> QED
    BY <2>1, <2>2, <2>3, StorageStays, NothingLost DEF SameValue
<1>3. CASE ScanDevice
  <2>1. queue' = queue /\ (\E X : Goes("lsd", X))
    BY <1>3, ScanSound
  <2>2. \E d \in Device, h \in Group : Head(todo["lsd"]) = [op |-> "scan", dev |-> d, group |-> h]
    BY <1>3, ScanSound
  <2>3. ~HeldStep(Head(todo["lsd"]), k, g)
    BY <2>2 DEF HeldStep, Carry, NotifyStep
  <2> QED
    BY <1>1, <2>1, <2>3, HandingOnLatest, StepsAre
<1> QED
  BY <1>2, <1>3 DEF DumpStep
LEMMA StoReceiveKeepsLatest ==
  ASSUME Sound, Running, StoReceive, NEW k \in DOMAIN shadow', NEW g \in Group, SameValue(k, g)
  PROVE  LatestOn(k, g)
<1> DEFINE m == Head(queue["sto"])
           v == shadow[k][g]
           X == LatestSetters(k, g)
           Y == Deleters(k) \cup Setters(k, g)
<1>1. /\ Steps("sto") = {} /\ queue["sto"] # <<>> /\ shadow' = shadow
      /\ \A u \in Thread \ {"sto"} : Steps(u)' = Steps(u)
      /\ queue'["sto"] = Tail(queue["sto"]) /\ Messages("sto") = {m} \cup Messages("sto")'
      /\ m \in StoMessage /\ m.type # "dumpCompleted" /\ todo'["sto"] = Handling(m)
  BY StoReceiveSound DEF SameMem
<1>2. queue["sto"] \in Seq(StoMessage)
  BY DEF Sound, Typed, QueueTyped
<1>3. Steps("sto")' = ToSet(Handling(m))
  BY <1>1 DEF Steps
<1>4. ToSet(Tail(queue["sto"])) = Messages("sto")' /\ Messages("sto") \subseteq StoMessage
  <2>1. ToSet(queue["sto"]) \subseteq StoMessage
    BY <1>2 DEF ToSet
  <2> QED
    BY <1>1, <2>1 DEF Messages
<1>5. X' = X /\ Y' = Y
  BY <1>1, SameSetters
<1>6. \A s \in ToSet(Handling(m)) : IsSet(s, k, g) => SetsIn(m, k, g) /\ (AllIn(m, k, v) => s.rec.value = v)
  BY <1>1, HandlingSets
<1>7. v' = v
  BY DEF SameValue
<1>8. /\ SetsIn(m, k, g) => \E s \in ToSet(Handling(m)) : IsSet(s, k, g)
      /\ \A s : s \in ToSet(Handling(m)) /\ s.op = "record" /\ Erases(s.rec, k) => Deletes(m, k)
  BY <1>1, HandlingWrites
<1> HIDE DEF m, v, X, Y
<1>9. Held(k, g) => Held(k, g)'
  BY <1>1, SubscriptionStays, StoreKeepsHeld
<1>10. LastIn(queue["sto"], X, Y) => \/ LastIn(Tail(queue["sto"]), X, Y)
                                     \/ m \in X /\ \A x \in ToSet(Tail(queue["sto"])) : x \notin Y
  BY <1>1, <1>2, LastOfTail DEF m
<1>11. QueuedLatest(k, g) => QueuedLatest(k, g)' \/ WritingLatest(k, g)'
  <2>1. CASE LastIn(Tail(queue["sto"]), X, Y)
    BY <1>1, <1>5, <2>1 DEF QueuedLatest, X, Y
  <2>2. CASE m \in X /\ \A x \in ToSet(Tail(queue["sto"])) : x \notin Y
    <3>1. SetsIn(m, k, g) /\ AllIn(m, k, v)
      BY <2>2 DEF X, LatestSetters, Setters, v
    <3>2. \A x \in Messages("sto")' : ~Deletes(x, k) /\ ~SetsIn(x, k, g)
      BY <1>1, <1>4, <2>2 DEF Y, Deleters, Setters
    <3>3. WritingSet(k, g)'
      BY <1>3, <1>8, <3>1 DEF WritingSet
    <3>4. \A s \in Steps("sto")' : IsSet(s, k, g) => s.rec.value = v
      BY <1>3, <1>6, <3>1
    <3>5. shadow'[k][g] = v
      BY <1>1 DEF v
    <3>6. ~QueuedDeletion(k)' /\ ~QueuedSet(k, g)'
      BY <3>2 DEF QueuedDeletion, QueuedSet
    <3> QED
      BY <3>3, <3>4, <3>5, <3>6 DEF WritingLatest
  <2> QED
    BY <1>10, <2>1, <2>2 DEF QueuedLatest, X, Y
<1>12. ~WritingLatest(k, g)
  BY <1>1 DEF WritingLatest, WritingSet
<1>13. Rested(k, g) => Rested(k, g)'
  <2> SUFFICES ASSUME Rested(k, g) PROVE Rested(k, g)'
    OBVIOUS
  <2>1. ~Deletes(m, k) /\ ~SetsIn(m, k, g)
    BY <1>1 DEF Rested, Kept, QueuedDeletion, QueuedSet
  <2>2. ~QueuedDeletion(k)' /\ ~QueuedSet(k, g)'
    BY <1>1 DEF Rested, Kept, QueuedDeletion, QueuedSet
  <2>3. ~Erasing(k)' /\ ~WritingSet(k, g)'
    BY <1>3, <1>6, <1>8, <2>1 DEF Erasing, WritingSet
  <2> QED
    BY <2>2, <2>3 DEF Rested, Kept
<1> QED
  BY <1>9, <1>11, <1>12, <1>13, NothingLost

LEMMA WriteRecordKeepsLatest ==
  ASSUME Sound, OneErasure, Running, WriteRecord, NEW k \in DOMAIN shadow', NEW g \in Group, SameValue(k, g)
  PROVE  LatestOn(k, g)
<1>1. /\ arc' = arc /\ queue' = queue /\ Goes("sto", {}) /\ todo["sto"] # <<>> /\ shadow' = shadow
      /\ todo'["sto"] = Tail(todo["sto"])
  BY WriteRecordSound DEF SameMem
<1>2. PICK r \in Record :
        /\ r.type # "torn" /\ Head(todo["sto"]) = RecordStep(r)
        /\ \/ r.type = "set" /\ r.key \notin DOMAIN shadow /\ cur' = cur
           \/ /\ r.type = "set" => r.key \in DOMAIN shadow
              /\ cur' = Append(RecordsOf(cur), r)
  BY WriteRecordSound
<1>3. RecordStep(r).op = "record" /\ RecordStep(r).rec = r
  BY DEF RecordStep
<1>4. \A u \in Thread \ {"sto"} : Steps(u)' = Steps(u)
  BY <1>1 DEF Goes
<1>5. PICK rest : Steps("sto") = {RecordStep(r)} \cup rest /\ Steps("sto")' = rest
  BY <1>1, <1>2 DEF Goes
<1>6. Held(k, g) => Held(k, g)'
  BY <1>4, SubscriptionStays, StoreKeepsHeld
<1>7. QueuedLatest(k, g) => QueuedLatest(k, g)'
  BY <1>1, SameSetters DEF QueuedLatest
<1>8. QueuedDeletion(k)' = QueuedDeletion(k) /\ QueuedSet(k, g)' = QueuedSet(k, g)
  BY <1>1 DEF QueuedDeletion, QueuedSet, Messages
<1>9. Rested(k, g) => Rested(k, g)'
  BY <1>5, <1>8 DEF Rested, Kept, Erasing, WritingSet
<1>10. WritingLatest(k, g) => WritingLatest(k, g)' \/ (Rested(k, g)' /\ WrittenLatest(k, g))
  <2> SUFFICES ASSUME WritingLatest(k, g) PROVE WritingLatest(k, g)' \/ (Rested(k, g)' /\ WrittenLatest(k, g))
    OBVIOUS
  <2>1. CASE WritingSet(k, g)'
    <3>1. \A s \in Steps("sto")' : IsSet(s, k, g) => s.rec.value = shadow[k][g]
      BY <1>5 DEF WritingLatest
    <3> QED
      BY <1>1, <1>8, <2>1, <3>1 DEF WritingLatest
  <2>2. CASE ~WritingSet(k, g)'
    <3>1. PICK s \in Steps("sto") : IsSet(s, k, g)
      BY DEF WritingLatest, WritingSet
    <3>2. s = RecordStep(r)
      BY <1>5, <2>2, <3>1 DEF WritingSet
    <3>3. r.type = "set" /\ r.key = k /\ r.group = g /\ r.value = shadow[k][g]
      BY <1>3, <3>1, <3>2 DEF IsSet, WritingLatest
    <3>4. \A x \in Steps("sto") : x.op = "record" /\ x.rec.type # "set" => Steps("sto")' = {}
      BY <1>1, NextErasure
    <3>5. ~Erasing(k)'
      BY <1>5, <3>4 DEF Erasing, Erases
    <3>6. Rested(k, g)'
      BY <1>8, <2>2, <3>5 DEF Rested, Kept, WritingLatest
    <3>7. LogsAppended(r)
      BY <1>1, <1>2, <3>3 DEF LogsAppended, SameValue
    <3>8. WrittenLatest(k, g)
      BY <3>3, <3>7 DEF WrittenLatest
    <3> QED
      BY <3>6, <3>8
  <2> QED
    BY <2>1, <2>2
<1> QED
  BY <1>6, <1>7, <1>9, <1>10, NothingLost
LEMMA DumpCompleteKeepsLatest ==
  ASSUME Sound, Running, DumpComplete, NEW k \in DOMAIN shadow', NEW g \in Group, SameValue(k, g)
  PROVE  LatestOn(k, g)
<1> DEFINE X == LatestSetters(k, g)
           Y == Deleters(k) \cup Setters(k, g)
<1>1. /\ todo' = todo /\ Steps("sto") = {} /\ queue["sto"] # <<>> /\ shadow' = shadow
      /\ queue'["sto"] = Tail(queue["sto"]) /\ Messages("sto") = {DumpCompleted} \cup Messages("sto")'
      /\ Head(queue["sto"]) = DumpCompleted
  BY DumpCompleteSound DEF SameMem
<1>2. queue["sto"] \in Seq(StoMessage)
  BY DEF Sound, Typed, QueueTyped
<1>3. \A t \in Thread : Steps(t)' = Steps(t)
  BY <1>1 DEF Steps
<1>4. DumpCompleted \notin X /\ ~Deletes(DumpCompleted, k) /\ ~SetsIn(DumpCompleted, k, g)
  BY DEF Deletes, DumpCompleted, LatestSetters, Setters, SetsIn
<1>5. X' = X /\ Y' = Y
  BY <1>1, SameSetters
<1> HIDE DEF X, Y
<1>6. LastIn(queue["sto"], X, Y) => LastIn(Tail(queue["sto"]), X, Y)
  BY <1>1, <1>2, <1>4, LastOfTail
<1>7. QueuedLatest(k, g) => QueuedLatest(k, g)'
  BY <1>1, <1>5, <1>6 DEF QueuedLatest, X, Y
<1>8. Held(k, g) => Held(k, g)'
  BY <1>3, SubscriptionStays, StoreKeepsHeld
<1>9. ~WritingLatest(k, g)
  BY <1>1 DEF WritingLatest, WritingSet
<1>10. QueuedDeletion(k)' = QueuedDeletion(k) /\ QueuedSet(k, g)' = QueuedSet(k, g)
  BY <1>1, <1>4 DEF QueuedDeletion, QueuedSet
<1>11. Erasing(k)' = Erasing(k) /\ WritingSet(k, g)' = WritingSet(k, g)
  BY <1>3, StepsAre DEF Erasing, WritingSet
<1> QED
  BY <1>7, <1>8, <1>9, <1>10, <1>11, NothingLost DEF Rested, Kept

(* A consolidation begins, or a dump is asked for.                         *)
LEMMA LogStepKeepsLatest ==
  ASSUME Sound, Running, NEW X, Goes("sto", X), \A x \in X : x.op # "record", Head(todo["sto"]).op # "record",
         queue'["sto"] = queue["sto"], NEW k \in DOMAIN shadow', NEW g \in Group, SameValue(k, g)
  PROVE  LatestOn(k, g)
<1>1. \A u \in Thread \ {"sto"} : Steps(u)' = Steps(u)
  BY DEF Goes
<1>2. PICK rest : Steps("sto") = {Head(todo["sto"])} \cup rest /\ Steps("sto")' = X \cup rest
  BY DEF Goes
<1>3. \A s : s.op = "record" => (s \in Steps("sto")' <=> s \in Steps("sto"))
  BY <1>2
<1>4. Held(k, g) => Held(k, g)'
  BY <1>1, SubscriptionStays, StoreKeepsHeld
<1> QED
  BY <1>3, <1>4, StorageStays, NothingLost DEF SameValue

(* No step of the running threads loses the latest value.                  *)
LEMMA LatestGoesOn ==
  ASSUME Sound, OneErasure, HeldAreLatest, Running, NEW k \in DOMAIN shadow', NEW g \in Group, SameValue(k, g)
  PROVE  LatestOn(k, g)
<1>1. CASE ThreadStep
  <2>1. PICK t \in Thread : \/ Announce(t) \/ Subscribe(t) \/ Notify(t) \/ SendMessage(t)
                            \/ ClearDevice(t) \/ DestroyObject(t)
    BY <1>1 DEF ThreadStep
  <2>2. CASE SendMessage(t) /\ t = "sto"
    <3>1. Goes("sto", {}) /\ queue'["sto"] = queue["sto"] /\ Head(todo["sto"]).op = "send"
      BY <2>2, SendSound
    <3> QED
      BY <3>1, LogStepKeepsLatest
  <2>3. CASE SendMessage(t) /\ t # "sto"
    BY <2>3, SendKeepsLatest
  <2> QED
    BY <2>1, <2>2, <2>3, ClientKeepsLatest
<1>2. CASE StorageStep
  <2>1. CASE Rename
    <3>1. queue' = queue /\ Head(todo["sto"]) = [op |-> "consolidate"] /\ (Goes("sto", {}) \/ Goes("sto", {NewLogStep}))
      BY <2>1, RenameSound
    <3>2. Head(todo["sto"]).op # "record" /\ NewLogStep.op # "record"
      BY <3>1 DEF NewLogStep
    <3> QED
      BY <3>1, <3>2, LogStepKeepsLatest
  <2>2. CASE NewLog
    <3>1. queue' = queue /\ Head(todo["sto"]) = NewLogStep /\ Goes("sto", {Send("lsd", DumpRequest)})
      BY <2>2, NewLogSound
    <3>2. Head(todo["sto"]).op # "record" /\ Send("lsd", DumpRequest).op # "record"
      BY <3>1 DEF NewLogStep, Send
    <3> QED
      BY <3>1, <3>2, LogStepKeepsLatest
  <2> QED
    BY <1>2, <2>1, <2>2, StoReceiveKeepsLatest, WriteRecordKeepsLatest, DumpCompleteKeepsLatest DEF StorageStep
<1> QED
  BY <1>1, <1>2, CallKeepsLatest, DumpKeepsLatest DEF Running

(* A value that is new is in the hands of the thread that set it.          *)
LEMMA NewLatestIsHeld ==
  ASSUME Sound, Subscribed, NEW k \in Key, NEW g \in Group, k \in DOMAIN shadow', <<k, g>> \notin raced',
         \/ \E v \in Value : CreateProperty(k, v)
         \/ \E t \in Thread, v \in Value : SetValue(t, k, g, v)
  PROVE  LatestComes(k, g)'
<1>1. ASSUME NEW v \in Value, CreateProperty(k, v) PROVE Held(k, g)'
  BY <1>1, NewIsCarried DEF Carried, Held, HeldStep
<1>2. ASSUME NEW t \in Thread, NEW v \in Value, SetValue(t, k, g, v) PROVE Held(k, g)'
  <2>1. /\ Steps(t)' = {NotifyOf(k, g, v)}
        /\ raced' = NotRaced(k, {g}) \cup (Races(t, k) \cap {<<k, g>>})
    BY <1>2, ValueIsSet
  <2>2. Steps(t) = {} /\ k \in DOMAIN shadow /\ subs' = subs
    BY <1>2, SetValueSound
  <2>3. SubscribeStep(k, g) \notin Steps("handler")
    <3>1. <<k, g>> \notin Races(t, k)
      BY <2>1
    <3>2. t # "handler" => SubscribeStep(k, g) \notin Steps("handler")
      BY <3>1, RacesAre, StepsAre
    <3> QED
      BY <2>2, <3>2
  <2>4. <<k, g>> \in subs'
    BY <2>2, <2>3 DEF Subscribed
  <2>5. NotifyStep(NotifyOf(k, g, v), k, g)
    BY DEF NotifyStep, NotifyOf
  <2>6. HeldStep(NotifyOf(k, g, v), k, g)'
    BY <2>4, <2>5 DEF HeldStep
  <2> QED
    BY <2>1, <2>6 DEF Held
<1> QED
  BY <1>1, <1>2 DEF LatestComes
----------------------------------------------------------------------------
(* What a load would read has the latest value, or the latest comes.       *)
LatestIn(props, k, g) == k \in DOMAIN props /\ props[k][g] = shadow[k][g] /\ Rested(k, g)

LatestStored(k, g) == StoredReads => LatestComes(k, g) \/ LatestIn(StoredNow.props, k, g)
LatestDumped(k, g) == Started /\ CurrentReads =>
                        Unscanned(k, g) \/ LatestComes(k, g) \/ LatestIn(Current.props, k, g)

LatestIsStored ==
  phase = "run" /\ ~discarded =>
    \A k \in DOMAIN shadow, g \in Group : <<k, g>> \notin raced => LatestStored(k, g) /\ LatestDumped(k, g)

LEMMA AppendedOnce ==
  ASSUME Sound, NEW r \in Record, NEW x \in Record, LogsAppended(r), LogsAppended(x)
  PROVE  x = r
<1>1. RecordsOf(cur) \in Seq(Record) /\ Append(RecordsOf(cur), x) = Append(RecordsOf(cur), r)
  BY RecordsTyped DEF LogsAppended, Sound, Typed, RestTyped
<1>2. Append(RecordsOf(cur), x)[Len(RecordsOf(cur)) + 1] = x
  BY <1>1, OneMore
<1>3. Append(RecordsOf(cur), r)[Len(RecordsOf(cur)) + 1] = r
  BY <1>1, OneMore
<1> QED
  BY <1>1, <1>2, <1>3

\* One step, for a log that is loaded to its end.
LEMMA LatestStoredNext ==
  ASSUME Sound, OneErasure, HeldAreLatest, Running,
         NEW k \in DOMAIN shadow', NEW g \in Group, SameValue(k, g),
         NEW s \in Loaded, NEW t \in Loaded, s.end = "ok", t.end # "failed",
         LatestComes(k, g) \/ LatestIn(s.props, k, g),
         \/ t.props = s.props /\ ~WriteRecord
         \/ t.props = s.props /\ cur' = cur
         \/ \E r \in Record : WriteRecord /\ LogsAppended(r) /\ t = Apply(s, r)
  PROVE  LatestComes(k, g)' \/ (k \in DOMAIN t.props /\ t.props[k][g] = shadow'[k][g] /\ Rested(k, g)')
<1> DEFINE v == shadow[k][g]
<1>1. LatestOn(k, g)
  BY LatestGoesOn
<1>2. shadow'[k][g] = v
  BY DEF SameValue
<1> HIDE DEF v
<1>3. CASE t.props = s.props /\ (~WriteRecord \/ cur' = cur)
  <2>1. ~WrittenLatest(k, g)
    BY <1>3, AppendedIs DEF WrittenLatest
  <2> QED
    BY <1>1, <1>2, <1>3, <2>1 DEF LatestOn, LatestIn, v
<1>4. ASSUME NEW r \in Record, WriteRecord, LogsAppended(r), t = Apply(s, r)
      PROVE  LatestComes(k, g)' \/ (k \in DOMAIN t.props /\ t.props[k][g] = v /\ Rested(k, g)')
  <2>1. r.type # "torn" /\ RecordStep(r) \in Steps("sto")
    BY <1>4, WrittenIs
  <2>2. RecordStep(r).op = "record" /\ RecordStep(r).rec = r
    BY DEF RecordStep
  <2>3. Restored(s, t, r)
    BY <1>4, ApplyRestores
  <2>4. r.type \in {"set", "propertyGone", "deviceGone"}
    BY <2>1, RecordIs
  <2>5. CASE LatestComes(k, g)
    <3>1. CASE WrittenLatest(k, g) /\ Rested(k, g)'
      <4>1. r.type = "set" /\ r.key = k /\ r.group = g /\ r.value = v
        BY <1>4, <3>1, AppendedOnce DEF WrittenLatest, v
      <4>2. /\ DOMAIN t.props = DOMAIN s.props \cup {r.key}
            /\ t.props[r.key][r.group] = r.value
        BY <2>3, <4>1 DEF Restored
      <4> QED
        BY <3>1, <4>1, <4>2
    <3> QED
      BY <1>1, <2>5, <3>1 DEF LatestOn
  <2>6. CASE LatestIn(s.props, k, g)
    <3>1. ~Erases(r, k) /\ ~(r.type = "set" /\ r.key = k /\ r.group = g)
      BY <2>1, <2>2, <2>6 DEF LatestIn, Rested, Kept, Erasing, WritingSet, IsSet
    <3>2. k \in DOMAIN s.props /\ s.props[k][g] = v
      BY <2>6 DEF LatestIn, v
    <3>3. CASE r.type \in {"propertyGone", "deviceGone"}
      <4>1. k \in DOMAIN t.props /\ t.props[k] = s.props[k]
        BY <2>3, <3>1, <3>2, <3>3 DEF Restored, Erases
      <4> QED
        BY <1>1, <2>6, <3>2, <4>1 DEF LatestOn, LatestIn
    <3>4. CASE r.type = "set"
      <4>1. /\ DOMAIN t.props = DOMAIN s.props \cup {r.key}
            /\ \A j \in DOMAIN s.props \ {r.key} : t.props[j] = s.props[j]
        BY <2>3, <3>4 DEF Restored
      <4>2. \A h \in Group : h # r.group =>
              t.props[r.key][h] = IF r.key \in DOMAIN s.props THEN s.props[r.key][h] ELSE r.value
        BY <2>3, <3>4 DEF Restored
      <4>3. t.props[k][g] = s.props[k][g]
        BY <3>1, <3>2, <3>4, <4>1, <4>2
      <4> QED
        BY <1>1, <2>6, <3>2, <4>1, <4>3 DEF LatestOn, LatestIn
    <3> QED
      BY <2>4, <3>3, <3>4
  <2> QED
    BY <2>5, <2>6
<1> QED
  BY <1>2, <1>3, <1>4

LEMMA KeysAreKeys ==
  ASSUME Sound'
  PROVE  DOMAIN shadow' \subseteq Key
BY PropsAre DEF Sound, Typed, MemTyped, Props, Key, Group

(* A dump that has begun reads what is in the current log, which no        *)
(* consolidation takes away while it lasts.                                *)
LEMMA DumpedLog ==
  ASSUME Sound, OneDump, [Next]_vars, Running, Started
  PROVE  \/ Current' = Current /\ cur' = cur
         \/ WriteRecord /\ \E r \in Record : LogsAppended(r) /\ Current' = Apply(Current, r)
<1>1. arc # NoLog /\ NewLogStep \notin Steps("sto")
  BY StartedIs DEF Sound, Asking
<1>2. \/ LogsKept \/ ArchiveGone
      \/ WriteRecord /\ \E r \in Record : LogsAppended(r)
  BY <1>1, LogsAfter, RunningIs, LoadCurrentSound, RestartSound DEF LogsRenamed
<1>3. cur' = cur => Current' = Current
  BY StoredAfterIs DEF Current
<1> QED
  BY <1>2, <1>3, AppendedIs DEF LogsKept, ArchiveGone

LEMMA LatestInStored ==
  ASSUME Steady, HeldAreLatest, LatestIsStored, [Next]_vars, Running, ~discarded', StoredReads',
         NEW k \in DOMAIN shadow', NEW g \in Group, SameValue(k, g)
  PROVE  LatestComes(k, g)' \/ LatestIn(StoredNow.props, k, g)'
<1>1. Sound /\ Counted /\ Orderly /\ OneErasure
  BY DEF Steady, Safe
<1>2. Sound' /\ LoadFacts /\ LoadFacts' /\ phase = "run"
  BY <1>1, SoundNext, LoadsAre, LoadsAfter, RunningIs
<1>3. /\ StoredNow \in Loaded /\ Current \in Loaded /\ StoredNow' \in Loaded /\ Current' \in Loaded
      /\ Stored = StoredNow.props /\ Stored' = StoredNow.props'
  BY <1>2, StoredAfterIs DEF LoadFacts
<1>4. /\ StoredReads => StoredNow.end = "ok"
      /\ CurrentReads => Current.end = "ok"
      /\ StoredNow'.end # "failed"
  BY <1>2 DEF LoadFacts, StoredReads, CurrentReads
<1>5. SUFFICES LatestComes(k, g)' \/ /\ k \in DOMAIN StoredNow'.props
                                     /\ StoredNow'.props[k][g] = shadow'[k][g] /\ Rested(k, g)'
  BY DEF LatestIn
<1>6. ~discarded
  BY HarmStays
<1>7. LatestStored(k, g) /\ LatestDumped(k, g)
  BY <1>2, <1>6 DEF LatestIsStored, SameValue
<1>8. CASE StoredKept /\ (~WriteRecord \/ cur' = cur)
  <2>1. StoredReads /\ StoredNow'.props = StoredNow.props
    BY <1>3, <1>8 DEF StoredKept
  <2>2. StoredNow.end = "ok" /\ (LatestComes(k, g) \/ LatestIn(StoredNow.props, k, g))
    BY <1>4, <1>7, <2>1 DEF LatestStored
  <2> QED
    BY <1>1, <1>3, <1>4, <1>8, <2>1, <2>2, LatestStoredNext
<1>9. ASSUME NEW r \in Record, WriteRecord, LogsAppended(r)
      PROVE  LatestComes(k, g)' \/ /\ k \in DOMAIN StoredNow'.props
                                   /\ StoredNow'.props[k][g] = shadow'[k][g] /\ Rested(k, g)'
  <2>1. ~IsTorn(r) /\ RecordStep(r) \in Steps("sto")
    BY <1>1, <1>9, WrittenIs DEF IsTorn
  <2>2. StoredApplied(r)
    BY <1>1, <1>2, <1>6, <1>9, <2>1, AppliedIs
  <2>3. StoredReads /\ StoredNow' = Apply(StoredNow, r)
    BY <2>2 DEF StoredApplied
  <2>4. StoredNow.end = "ok" /\ (LatestComes(k, g) \/ LatestIn(StoredNow.props, k, g))
    BY <1>4, <1>7, <2>3 DEF LatestStored
  <2> QED
    BY <1>1, <1>3, <1>4, <1>9, <2>3, <2>4, LatestStoredNext
<1>10. CASE StoredDumped
  <2>1. Steps("lsd") = {} /\ Started
    BY <1>10, DumpIsWhole DEF StoredDumped, Steady
  <2>2. CurrentReads /\ Stored' = Current.props /\ cur' = cur
    BY <1>10 DEF StoredDumped
  <2>3. Current.end = "ok" /\ (LatestComes(k, g) \/ LatestIn(Current.props, k, g))
    BY <1>4, <1>7, <2>1, <2>2 DEF LatestDumped, Unscanned
  <2>4. StoredNow'.props = Current.props
    BY <1>3, <2>2
  <2> QED
    BY <1>1, <1>3, <1>4, <2>2, <2>3, <2>4, LatestStoredNext
<1>11. CASE WriteRecord /\ ~(\E r \in Record : LogsAppended(r))
  <2>1. LogsKept
    BY <1>1, <1>11, WriteRecordSound DEF LogsKept, LogsAppended
  <2>2. ~StoredDumped /\ ~(\E r \in Record : StoredApplied(r))
    BY <1>1, <1>11, WriteRecordSound, DumpCompleteSound DEF StoredDumped, StoredApplied
  <2>3. StoredKept
    BY <1>1, <2>2, StoredAfter, RunningIs DEF Harmed
  <2> QED
    BY <1>8, <2>1, <2>3 DEF LogsKept
<1>12. CASE ~WriteRecord
  <2>1. StoredKept \/ StoredDumped
    BY <1>1, <1>12, StoredAfter, RunningIs DEF Harmed, StoredApplied
  <2> QED
    BY <1>8, <1>10, <1>12, <2>1
<1> QED
  BY <1>9, <1>11, <1>12

LEMMA LatestInCurrent ==
  ASSUME Steady, HeldAreLatest, LatestIsStored, [Next]_vars, Running, ~discarded', Started', CurrentReads',
         NEW k \in DOMAIN shadow', NEW g \in Group, SameValue(k, g)
  PROVE  Unscanned(k, g)' \/ LatestComes(k, g)' \/ LatestIn(Current.props, k, g)'
<1>1. Sound /\ Counted /\ Orderly /\ OneErasure /\ OneDump
  BY DEF Steady, Safe
<1>2. Sound' /\ LoadFacts /\ LoadFacts' /\ phase = "run"
  BY <1>1, SoundNext, LoadsAre, LoadsAfter, RunningIs
<1>3. /\ Current \in Loaded /\ Current' \in Loaded /\ Current'.end # "failed"
      /\ CurrentReads => Current.end = "ok"
  BY <1>2 DEF LoadFacts, CurrentReads
<1>4. GoesOn(k, g)
  BY <1>1, GoesOnNext DEF SameValue
<1>5. ~discarded
  BY HarmStays
<1>6. CASE Unscanned(k, g)' \/ Carried(k, g)'
  BY <1>6 DEF LatestComes, Held, HeldStep, Carried
<1>7. CASE ~Unscanned(k, g)' /\ ~Carried(k, g)'
  <2>1. Started /\ ~Unscanned(k, g)
    BY <1>4, <1>7 DEF GoesOn
  <2>2. \/ Current' = Current /\ cur' = cur
        \/ WriteRecord /\ \E r \in Record : LogsAppended(r) /\ Current' = Apply(Current, r)
    BY <1>1, <2>1, DumpedLog
  <2>3. CurrentReads
    <3>1. CASE cur' = cur
      <4>1. (CurrentReads' <=> Whole(cur') /\ LoadFrom(Blank, cur').end # "failed")
        BY <1>2, ReadsAfter
      <4> QED
        BY <3>1, <4>1 DEF CurrentReads, Current
    <3>2. ASSUME NEW r \in Record, WriteRecord, LogsAppended(r) PROVE CurrentReads
      <4>1. ~IsTorn(r) /\ RecordStep(r) \in Steps("sto")
        BY <1>1, <3>2, WrittenIs DEF IsTorn
      <4>2. StoredApplied(r)
        BY <1>1, <1>2, <1>5, <3>2, <4>1, AppliedIs
      <4> QED
        BY <4>2 DEF StoredApplied
    <3> QED
      BY <2>2, <3>1, <3>2
  <2>4. LatestComes(k, g) \/ LatestIn(Current.props, k, g)
    BY <1>2, <1>5, <2>1, <2>3 DEF LatestIsStored, LatestDumped, SameValue
  <2>5. LatestComes(k, g)' \/ (k \in DOMAIN Current'.props /\ Current'.props[k][g] = shadow'[k][g] /\ Rested(k, g)')
    BY <1>1, <1>3, <2>2, <2>3, <2>4, LatestStoredNext
  <2> QED
    BY <2>5 DEF LatestIn
<1> QED
  BY <1>6, <1>7

LEMMA LatestIsStoredNext ==
  ASSUME Steady, Subscribed, HeldAreLatest, LatestIsStored, [Next]_vars
  PROVE  LatestIsStored'
<1>1. Sound /\ Counted /\ Orderly
  BY DEF Steady, Safe
<1>2. Sound' /\ LoadFacts'
  BY <1>1, SoundNext, LoadsAfter
<1>3. CASE UNCHANGED vars
  <2>1. /\ shadow' = shadow /\ todo' = todo /\ queue' = queue /\ arc' = arc /\ cur' = cur /\ phase' = phase
        /\ raced' = raced /\ subs' = subs /\ dumpCount' = dumpCount /\ discarded' = discarded
    BY <1>3 DEF vars, mem, store, boot, harm
  <2>2. /\ StoredNow' = StoredNow /\ Current' = Current
        /\ (StoredReads' <=> StoredReads) /\ (CurrentReads' <=> CurrentReads)
    BY <1>1, <1>2, <2>1, ReadsKept
  <2>3. \A t \in Thread : Steps(t)' = Steps(t)
    BY <2>1 DEF Steps
  <2>4. Messages("sto")' = Messages("sto") /\ Started' = Started
    BY <2>1, <2>3, StepsAre DEF Messages, Started, DumpCompleted, CompletedStep
  <2>5. ASSUME NEW k, NEW g
        PROVE  /\ LatestComes(k, g)' = LatestComes(k, g) /\ Rested(k, g)' = Rested(k, g)
               /\ Unscanned(k, g)' = Unscanned(k, g)
    <3>1. Held(k, g)' = Held(k, g)
      BY <2>1, <2>3 DEF Held, HeldStep
    <3>2. QueuedLatest(k, g)' = QueuedLatest(k, g)
      BY <2>1, SameSetters DEF QueuedLatest
    <3>3. /\ QueuedDeletion(k)' = QueuedDeletion(k) /\ QueuedSet(k, g)' = QueuedSet(k, g)
          /\ WritingSet(k, g)' = WritingSet(k, g) /\ Erasing(k)' = Erasing(k)
      BY <2>3, <2>4, StepsAre DEF QueuedDeletion, QueuedSet, WritingSet, Erasing
    <3>4. WritingLatest(k, g)' = WritingLatest(k, g)
      BY <2>1, <2>3, <3>3, StepsAre DEF WritingLatest
    <3>5. Unscanned(k, g)' = Unscanned(k, g)
      BY <2>3, StepsAre DEF Unscanned
    <3> QED
      BY <3>1, <3>2, <3>3, <3>4, <3>5 DEF LatestComes, Rested, Kept
  <2>6. ASSUME NEW k, NEW g
        PROVE  /\ LatestIn(StoredNow.props, k, g)' = LatestIn(StoredNow.props, k, g)
               /\ LatestIn(Current.props, k, g)' = LatestIn(Current.props, k, g)
    BY <2>1, <2>2, <2>5 DEF LatestIn
  <2>7. ASSUME NEW k, NEW g, LatestStored(k, g), LatestDumped(k, g)
        PROVE  LatestStored(k, g)' /\ LatestDumped(k, g)'
    <3>1. LatestStored(k, g)'
      BY <2>2, <2>5, <2>6, <2>7 DEF LatestStored
    <3>2. LatestDumped(k, g)'
      BY <2>2, <2>4, <2>5, <2>6, <2>7 DEF LatestDumped
    <3> QED
      BY <3>1, <3>2
  <2> QED
    BY <2>1, <2>7 DEF LatestIsStored
<1>4. SUFFICES ASSUME phase' = "run", ~discarded', NEW k \in DOMAIN shadow', NEW g \in Group,
                      <<k, g>> \notin raced', Next
               PROVE  /\ StoredReads' => LatestComes(k, g)' \/ LatestIn(StoredNow.props, k, g)'
                      /\ Started' /\ CurrentReads' =>
                           Unscanned(k, g)' \/ LatestComes(k, g)' \/ LatestIn(Current.props, k, g)'
  BY <1>3 DEF LatestIsStored, LatestStored, LatestDumped
<1>5. CASE Running
  <2>1. k \in Key
    BY <1>2, KeysAreKeys
  <2>2. SameValue(k, g) \/ LatestComes(k, g)'
    BY <1>1, <1>4, <1>5, <2>1, ValueAfter, NewLatestIsHeld
  <2>3. CASE SameValue(k, g)
    BY <1>4, <1>5, <2>3, LatestInStored, LatestInCurrent
  <2> QED
    BY <2>2, <2>3
<1>6. CASE LoadCurrent
  <2>1. StartStep
    BY <1>6 DEF StartStep
  <2>2. ~Started'
    BY <1>1, <2>1, StartCovers
  <2>3. shadow' = StoredNow.props /\ StoredNow.props' = StoredNow.props
    BY <1>1, <1>2, <1>4, <1>6, LoadedIsStored, StoredAfterIs DEF Orderly
  <2>4. Messages("sto")' = {} /\ \A t \in Thread : Steps(t)' = {}
    BY <1>1, <2>1, StartIsEmpty
  <2>5. Rested(k, g)'
    BY <2>4, StepsAre DEF Rested, Kept, QueuedDeletion, QueuedSet, WritingSet, Erasing
  <2>6. LatestIn(StoredNow.props, k, g)'
    BY <2>3, <2>5 DEF LatestIn
  <2> QED
    BY <2>2, <2>6
<1>7. CASE LoadArchive \/ Restart
  BY <1>1, <1>4, <1>7, LoadArchiveSound, RestartSound
<1> QED
  BY <1>4, <1>5, <1>6, <1>7, NextIs DEF Running, StartStep

\* All that the proof about the values rests on.
Latest == Lasting /\ Subscribed /\ HeldAreLatest /\ LatestIsStored

LEMMA LatestInit == Init => Latest
<1> SUFFICES ASSUME Init PROVE Latest
  OBVIOUS
<1>1. phase # "run" /\ DOMAIN shadow = {}
  BY DEF Init, Blank
<1> QED
  BY <1>1, LastingInit DEF Latest, Subscribed, HeldAreLatest, LatestIsStored

LEMMA QuiescentIsLatest == Latest => QuiescentLatest
<1> SUFFICES ASSUME Latest, Quiescent, StoredReads, NEW k \in DOMAIN shadow, NEW g \in Group, <<k, g>> \notin raced
             PROVE  Stored[k][g] = shadow[k][g]
  BY DEF QuiescentLatest, StoredReads
<1>1. /\ phase = "run" /\ \A t \in Thread : Steps(t) = {}
      /\ Messages("sto") = {} /\ queue["sto"] = <<>>
  BY NoElements DEF Quiescent, Steps, Messages, Latest, Lasting, Steady, Safe, Sound, Typed, QueueTyped
<1>2. ~LatestComes(k, g)
  BY <1>1, StepsAre DEF LatestComes, Held, QueuedLatest, LastIn, WritingLatest, WritingSet
<1>3. ~discarded
  BY DEF StoredReads, Loadable
<1>4. LatestIn(StoredNow.props, k, g)
  BY <1>1, <1>2, <1>3 DEF Latest, LatestIsStored, LatestStored
<1> QED
  BY <1>4 DEF LatestIn, Stored

(* Once every thread is idle a restart would bring back the latest value   *)
(* of every property, whatever updates met a consolidation's dump, but for *)
(* the values whose update met another thread that had one in hand, as     *)
(* long as no torn record hides what is stored and the logs load.          *)
THEOREM IdleValuesAreStored == Spec => []QuiescentLatest
<1>1. Lasting /\ Lasting' /\ Latest /\ [Next]_vars => Latest'
  <2> SUFFICES ASSUME Lasting, Lasting', Latest, [Next]_vars PROVE Latest'
    OBVIOUS
  <2>1. Subscribed'
    BY SubscribedNext DEF Latest, Lasting, Steady, Safe
  <2>2. HeldAreLatest'
    BY HeldAreLatestNext DEF Latest, Lasting, Steady, Safe
  <2>3. LatestIsStored'
    BY LatestIsStoredNext DEF Latest, Lasting
  <2> QED
    BY <2>1, <2>2, <2>3 DEF Latest
<1> QED
  BY <1>1, AlwaysLasting, LatestInit, QuiescentIsLatest, PTL DEF Spec
============================================================================
