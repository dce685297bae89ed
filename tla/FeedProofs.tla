------------------------------ MODULE FeedProofs ------------------------------
(***************************************************************************)
(* Proofs about the consumers of event streams: the autoscaler cache       *)
(* (Scalers), the outcome notifier and the watch stream (Streams).  Each   *)
(* reads a ring that forgets its oldest event, and says what that costs.   *)
(***************************************************************************)
EXTENDS Scalers, Streams, FiniteSetTheorems, SequenceTheorems, WellFoundedInduction, TLAPS

-----------------------------------------------------------------------------
(* Scalers.  Two arguments that do not meet: the last event in a ring that *)
(* speaks of a scaler tells what the cluster has, and somebody is always   *)
(* about to write the newest state of the sources to the cache.            *)

ScalerObject == Scaler \cup {NoScaler}
ScalerEvent == [kind : {"Applied"}, name : ScalerNames, object : ScalerObject]
               \cup [kind : {"Deleted"}, name : ScalerNames, object : {NoScaler}]
               \cup [kind : {"Restarted"}, name : {NoTarget}, object : [ScalerNames -> ScalerObject]]

Touches(ev, n) == ev.kind = "Restarted" \/ ev.name = n
Told(ev, n) == IF ev.kind = "Restarted" THEN ev.object[n] ELSE ev.object

\* The last event of s about n, if there is one, says o.
LastTold(s, n, o) ==
  \A i \in 1 .. Len(s) :
    Touches(s[i], n) /\ (\A j \in i + 1 .. Len(s) : ~Touches(s[j], n)) => Told(s[i], n) = o
NoneTold(s, n) == \A i \in 1 .. Len(s) : ~Touches(s[i], n)

ScalerTypes ==
  /\ scalers \in [Controllers -> [ScalerNames -> ScalerObject]]
  /\ ring \in [Controllers -> Seq(ScalerEvent)]
  /\ sources \in [Controllers -> [ScalerNames -> ScalerEntry \cup {NoEntry}]]
  /\ rebuild \in [Controllers -> Snapshots \cup {Unset, Due}]
  /\ sourcesAt \in Nat /\ cacheAt \in Nat /\ overtaken \in BOOLEAN

RingTells ==
  \A c \in Controllers, n \in ScalerNames :
    /\ LastTold(ring[c], n, scalers[c][n])
    /\ NoneTold(ring[c], n) => sources[c][n] = ParseScaler(c, scalers[c][n]) \/ c \in lost

SnapshotsDated ==
  \A c \in Controllers : rebuild[c] \in Snapshots =>
    /\ rebuild[c].at <= sourcesAt
    /\ rebuild[c].at = sourcesAt => rebuild[c].entries = Entries(sources)

CacheDated ==
  /\ cacheAt <= sourcesAt
  /\ cacheAt = sourcesAt /\ ~overtaken => cache = Entries(sources)

\* The newest state of the sources is in the cache, held by a consumer, or due.
NewestComing ==
  \/ cacheAt = sourcesAt
  \/ \E c \in Controllers : \/ rebuild[c] = Due
                            \/ rebuild[c] \in Snapshots /\ rebuild[c].at = sourcesAt

ScalersInv == ScalerTypes /\ RingTells /\ SnapshotsDated /\ CacheDated /\ NewestComing

LEMMA ParseTyped ==
  ASSUME NEW c \in Controllers, NEW s \in ScalerObject
  PROVE  ParseScaler(c, s) \in ScalerEntry \cup {NoEntry}
  <1>1. CASE s = NoScaler \/ s.target = NoTarget \/ (c = "Vpa" /\ s.off)
    <2>1. ParseScaler(c, s) = NoEntry
      BY <1>1, Zenon DEF ParseScaler
    <2> QED BY <2>1
  <1>2. CASE ~(s = NoScaler \/ s.target = NoTarget \/ (c = "Vpa" /\ s.off))
    <2>1. s \in Scaler /\ s.target \in Targets
      BY <1>2 DEF ScalerObject, Scaler
    <2>2. ParseScaler(c, s) = [controller |-> c, target |-> s.target, ignored |-> IgnoredPaths(c)]
      BY <1>2 DEF ParseScaler
    <2> QED BY <2>1, <2>2 DEF ScalerEntry
  <1> QED BY <1>1, <1>2

LEMMA EntriesTyped ==
  ASSUME NEW m \in [Controllers -> [ScalerNames -> ScalerEntry \cup {NoEntry}]]
  PROVE  Entries(m) \subseteq ScalerEntry
  BY DEF Entries

LEMMA LastToldAppend ==
  ASSUME NEW s \in Seq(ScalerEvent), NEW ev \in ScalerEvent, NEW n, NEW o, NEW p,
         LastTold(s, n, o), Touches(ev, n) => Told(ev, n) = p, ~Touches(ev, n) => o = p
  PROVE  /\ LastTold(Append(s, ev), n, p)
         /\ NoneTold(Append(s, ev), n) => NoneTold(s, n) /\ ~Touches(ev, n)
  <1> DEFINE t == Append(s, ev)
  <1>1. Len(t) = Len(s) + 1 /\ t[Len(t)] = ev /\ \A i \in 1 .. Len(s) : t[i] = s[i]
    OBVIOUS
  <1>2. Len(s) \in Nat
    OBVIOUS
  <1> HIDE DEF t
  <1>3. LastTold(t, n, p)
    <2> SUFFICES ASSUME NEW i \in 1 .. Len(t), Touches(t[i], n),
                        \A j \in i + 1 .. Len(t) : ~Touches(t[j], n)
                 PROVE  Told(t[i], n) = p
      BY DEF LastTold
    <2>1. CASE i = Len(t)
      BY <1>1, <2>1
    <2>2. CASE i # Len(t)
      <3>1. i \in 1 .. Len(s) /\ Len(t) \in i + 1 .. Len(t)
        BY <1>1, <1>2, <2>2
      <3>2. ~Touches(ev, n)
        BY <1>1, <3>1
      <3>3. Touches(s[i], n) /\ \A j \in i + 1 .. Len(s) : ~Touches(s[j], n)
        BY <1>1, <1>2, <3>1
      <3> QED BY <1>1, <3>1, <3>2, <3>3 DEF LastTold
    <2> QED BY <2>1, <2>2
  <1>4. NoneTold(t, n) => NoneTold(s, n) /\ ~Touches(ev, n)
    BY <1>1, <1>2 DEF NoneTold
  <1> QED BY <1>3, <1>4 DEF t

\* Dropping the head, to make room or to fold it.
LEMMA LastToldTail ==
  ASSUME NEW s \in Seq(ScalerEvent), s # <<>>, NEW n, NEW o, LastTold(s, n, o)
  PROVE  /\ LastTold(Tail(s), n, o)
         /\ NoneTold(Tail(s), n) /\ ~Touches(Head(s), n) => NoneTold(s, n)
         /\ NoneTold(Tail(s), n) /\ Touches(Head(s), n) => Told(Head(s), n) = o
  <1> DEFINE t == Tail(s)
  <1>1. /\ Len(s) \in Nat \ {0} /\ Len(t) = Len(s) - 1 /\ Head(s) = s[1]
        /\ \A i \in 1 .. Len(t) : t[i] = s[i + 1]
    OBVIOUS
  <1>2. \A i \in 2 .. Len(s) : t[i - 1] = s[i] /\ i - 1 \in 1 .. Len(t)
    BY <1>1
  <1> HIDE DEF t
  <1>3. LastTold(t, n, o)
    <2> SUFFICES ASSUME NEW i \in 1 .. Len(t), Touches(t[i], n),
                        \A j \in i + 1 .. Len(t) : ~Touches(t[j], n)
                 PROVE  Told(t[i], n) = o
      BY DEF LastTold
    <2>1. i + 1 \in 1 .. Len(s) /\ s[i + 1] = t[i]
      BY <1>1
    <2>2. ASSUME NEW j \in (i + 1) + 1 .. Len(s) PROVE ~Touches(s[j], n)
      <3>1. j \in 2 .. Len(s) /\ j - 1 \in i + 1 .. Len(t)
        BY <1>1
      <3> QED BY <1>2, <3>1
    <2> QED BY <2>1, <2>2 DEF LastTold
  <1>4. NoneTold(t, n) => \A j \in 2 .. Len(s) : ~Touches(s[j], n)
    BY <1>2 DEF NoneTold
  <1>5. NoneTold(t, n) /\ ~Touches(Head(s), n) => NoneTold(s, n)
    BY <1>1, <1>4 DEF NoneTold
  <1>6. NoneTold(t, n) /\ Touches(Head(s), n) => Told(Head(s), n) = o
    BY <1>1, <1>4 DEF LastTold
  <1> QED BY <1>3, <1>5, <1>6 DEF t

LEMMA ScalersStart == ScalersInit => ScalersInv
  <1> SUFFICES ASSUME ScalersInit PROVE ScalersInv
    OBVIOUS
  <1>1. ScalerTypes
    <2>1. <<>> \in Seq(ScalerEvent) /\ NoScaler \in ScalerObject
      BY DEF ScalerObject
    <2>2. /\ scalers \in [Controllers -> [ScalerNames -> ScalerObject]]
          /\ ring \in [Controllers -> Seq(ScalerEvent)]
      BY <2>1 DEF ScalersInit
    <2>3. /\ sources \in [Controllers -> [ScalerNames -> ScalerEntry \cup {NoEntry}]]
          /\ rebuild \in [Controllers -> Snapshots \cup {Unset, Due}]
          /\ sourcesAt \in Nat /\ cacheAt \in Nat /\ overtaken \in BOOLEAN
      BY DEF ScalersInit
    <2> QED BY <2>2, <2>3 DEF ScalerTypes
  <1>2. RingTells
    <2>1. ASSUME NEW c \in Controllers, NEW n \in ScalerNames
          PROVE  /\ ring[c] = <<>> /\ sources[c][n] = NoEntry /\ scalers[c][n] = NoScaler
      BY DEF ScalersInit
    <2>2. \A c \in Controllers : ParseScaler(c, NoScaler) = NoEntry
      BY DEF ParseScaler
    <2> QED BY <2>1, <2>2 DEF RingTells, LastTold, NoneTold
  <1>3. SnapshotsDated
    BY ScalerAssumption DEF ScalersInit, SnapshotsDated
  <1>4. CacheDated /\ NewestComing
    <2>1. Entries(sources) = {}
      BY DEF ScalersInit, Entries
    <2> QED BY <2>1 DEF ScalersInit, CacheDated, NewestComing
  <1> QED BY <1>1, <1>2, <1>3, <1>4 DEF ScalersInv

\* An event goes into c's ring: what a full ring forgets is on record.
LEMMA OfferStep ==
  ASSUME ScalersInv, NEW c \in Controllers, NEW ev \in ScalerEvent, Offer(c, ev),
         scalers' \in [Controllers -> [ScalerNames -> ScalerObject]],
         \A d \in Controllers \ {c} : scalers'[d] = scalers[d],
         \A n \in ScalerNames : /\ Touches(ev, n) => Told(ev, n) = scalers'[c][n]
                                /\ ~Touches(ev, n) => scalers[c][n] = scalers'[c][n],
         UNCHANGED <<sources, rebuild, cache, sourcesAt, cacheAt, overtaken>>
  PROVE  ScalersInv'
  <1>1. /\ ScalerTypes /\ RingTells /\ ring \in [Controllers -> Seq(ScalerEvent)]
        /\ ring[c] \in Seq(ScalerEvent) /\ ScalerCap \in Nat \ {0}
    BY ScalerAssumption DEF ScalersInv, ScalerTypes
  <1>2. PICK base : base = IF Len(ring[c]) = ScalerCap THEN Tail(ring[c]) ELSE ring[c]
    OBVIOUS
  <1>3. ring' = [ring EXCEPT ![c] = Append(base, ev)]
    BY <1>2 DEF Offer
  <1>4. base \in Seq(ScalerEvent) /\ (base # ring[c] => ring[c] # <<>> /\ base = Tail(ring[c]))
    <2>1. Len(ring[c]) = ScalerCap => ring[c] # <<>> /\ Tail(ring[c]) \in Seq(ScalerEvent)
      BY <1>1
    <2> QED BY <1>1, <1>2, <2>1
  <1>5. base # ring[c] => c \in lost'
    BY <1>2 DEF Offer
  <1>6. \A d \in Controllers : d \in lost => d \in lost'
    BY DEF Offer
  <1>7. Append(base, ev) \in Seq(ScalerEvent)
    BY <1>4
  <1>8. ring' \in [Controllers -> Seq(ScalerEvent)] /\ ring'[c] = Append(base, ev)
    BY <1>1, <1>3, <1>7
  <1>9. ScalerTypes'
    BY <1>1, <1>8 DEF ScalerTypes
  <1>10. ASSUME NEW n \in ScalerNames
        PROVE  /\ LastTold(ring'[c], n, scalers'[c][n])
               /\ NoneTold(ring'[c], n) =>
                    sources'[c][n] = ParseScaler(c, scalers'[c][n]) \/ c \in lost'
    <2>1. LastTold(ring[c], n, scalers[c][n])
      BY <1>1 DEF RingTells
    <2>2. LastTold(base, n, scalers[c][n])
      BY <1>1, <1>4, <2>1, LastToldTail
    <2>3. /\ LastTold(ring'[c], n, scalers'[c][n])
          /\ NoneTold(ring'[c], n) => NoneTold(base, n) /\ ~Touches(ev, n)
      BY <1>4, <1>8, <2>2, LastToldAppend
    <2>4. NoneTold(base, n) => sources[c][n] = ParseScaler(c, scalers[c][n]) \/ c \in lost'
      BY <1>1, <1>5, <1>6 DEF RingTells
    <2> QED BY <2>3, <2>4
  <1>11. RingTells'
    <2>1. ASSUME NEW d \in Controllers, d # c, NEW n \in ScalerNames
          PROVE  /\ LastTold(ring'[d], n, scalers'[d][n])
                 /\ NoneTold(ring'[d], n) =>
                      sources'[d][n] = ParseScaler(d, scalers'[d][n]) \/ d \in lost'
      <3>1. ring'[d] = ring[d] /\ scalers'[d] = scalers[d] /\ (d \in lost => d \in lost')
        BY <1>1, <1>3, <1>6, <2>1
      <3> QED BY <1>1, <3>1 DEF RingTells
    <2> QED BY <1>10, <2>1 DEF RingTells
  <1>12. SnapshotsDated' /\ CacheDated' /\ NewestComing'
    BY DEF ScalersInv, SnapshotsDated, CacheDated, NewestComing, Entries
  <1> QED BY <1>9, <1>11, <1>12 DEF ScalersInv

LEMMA ScalerEditStep ==
  ASSUME ScalersInv, NEW c \in Controllers, NEW n \in ScalerNames, NEW s \in ScalerObject,
         ScalerEdit(c, n, s)
  PROVE  ScalersInv'
  <1>1. PICK ev : ev = [kind |-> IF s = NoScaler THEN "Deleted" ELSE "Applied", name |-> n,
                        object |-> s]
    OBVIOUS
  <1>2. ev \in ScalerEvent
    <2>1. CASE s = NoScaler
      BY <1>1, <2>1 DEF ScalerEvent
    <2>2. CASE s # NoScaler
      BY <1>1, <2>2 DEF ScalerEvent
    <2> QED BY <2>1, <2>2
  <1>3. ev.kind # "Restarted" /\ ev.name = n /\ ev.object = s
    BY <1>1
  <1>4. /\ Offer(c, ev) /\ scalers' = [scalers EXCEPT ![c][n] = s]
        /\ UNCHANGED <<sources, rebuild, cache, sourcesAt, cacheAt, overtaken>>
    BY <1>1 DEF ScalerEdit
  <1>5. scalers \in [Controllers -> [ScalerNames -> ScalerObject]]
    BY DEF ScalersInv, ScalerTypes
  <1>6. /\ scalers' \in [Controllers -> [ScalerNames -> ScalerObject]]
        /\ \A d \in Controllers \ {c} : scalers'[d] = scalers[d]
        /\ scalers'[c][n] = s /\ \A m \in ScalerNames \ {n} : scalers'[c][m] = scalers[c][m]
    BY <1>4, <1>5
  <1>7. \A m \in ScalerNames : /\ Touches(ev, m) => Told(ev, m) = scalers'[c][m]
                               /\ ~Touches(ev, m) => scalers[c][m] = scalers'[c][m]
    BY <1>3, <1>6 DEF Touches, Told
  <1> QED BY <1>2, <1>4, <1>6, <1>7, OfferStep

LEMMA ScalerRelistStep ==
  ASSUME ScalersInv, NEW c \in Controllers, ScalerRelist(c)
  PROVE  ScalersInv'
  <1>1. scalers \in [Controllers -> [ScalerNames -> ScalerObject]]
    BY DEF ScalersInv, ScalerTypes
  <1>2. PICK ev : ev = [kind |-> "Restarted", name |-> NoTarget, object |-> scalers[c]]
    OBVIOUS
  <1>3. ev \in ScalerEvent
    BY <1>1, <1>2 DEF ScalerEvent
  <1>4. ev.kind = "Restarted" /\ ev.object = scalers[c]
    BY <1>2
  <1>5. /\ Offer(c, ev)
        /\ UNCHANGED <<scalers, sources, rebuild, cache, sourcesAt, cacheAt, overtaken>>
    BY <1>2 DEF ScalerRelist
  <1>6. \A m \in ScalerNames : /\ Touches(ev, m) => Told(ev, m) = scalers'[c][m]
                               /\ ~Touches(ev, m) => scalers[c][m] = scalers'[c][m]
    BY <1>4, <1>5 DEF Touches, Told
  <1> QED BY <1>1, <1>3, <1>5, <1>6, OfferStep

\* Folding an event sets what it is about, and nothing else.
LEMMA FoldedTells ==
  ASSUME ScalerTypes, NEW c \in Controllers, NEW ev \in ScalerEvent
  PROVE  /\ Folded(c, ev) \in [ScalerNames -> ScalerEntry \cup {NoEntry}]
         /\ \A n \in ScalerNames :
              /\ Touches(ev, n) => Folded(c, ev)[n] = ParseScaler(c, Told(ev, n))
              /\ ~Touches(ev, n) => Folded(c, ev)[n] = sources[c][n]
  <1>1. sources[c] \in [ScalerNames -> ScalerEntry \cup {NoEntry}]
    BY DEF ScalerTypes
  <1>2. CASE ev.kind = "Restarted"
    <2>1. ev.object \in [ScalerNames -> ScalerObject]
      BY <1>2 DEF ScalerEvent
    <2>2. \A n \in ScalerNames : ParseScaler(c, ev.object[n]) \in ScalerEntry \cup {NoEntry}
      BY <2>1, ParseTyped
    <2>3. Folded(c, ev) = [n \in ScalerNames |-> ParseScaler(c, ev.object[n])]
      BY <1>2 DEF Folded
    <2> QED BY <1>2, <2>2, <2>3 DEF Touches, Told
  <1>3. CASE ev.kind # "Restarted"
    <2>1. ev.name \in ScalerNames /\ ev.object \in ScalerObject
      BY <1>3 DEF ScalerEvent, ScalerObject
    <2>2. PICK e : e = IF ev.kind = "Applied" THEN ParseScaler(c, ev.object) ELSE NoEntry
      OBVIOUS
    <2>3. e = ParseScaler(c, ev.object)
      <3>1. CASE ev.kind = "Applied"
        BY <2>2, <3>1
      <3>2. CASE ev.kind # "Applied"
        <4>1. ev.object = NoScaler
          BY <1>3, <3>2 DEF ScalerEvent
        <4> QED BY <2>2, <3>2, <4>1 DEF ParseScaler
      <3> QED BY <3>1, <3>2
    <2>4. e \in ScalerEntry \cup {NoEntry}
      BY <2>1, <2>3, ParseTyped
    <2>5. Folded(c, ev) = [sources[c] EXCEPT ![ev.name] = e]
      BY <1>3, <2>2 DEF Folded
    <2> QED BY <1>1, <1>3, <2>1, <2>3, <2>4, <2>5 DEF Touches, Told
  <1> QED BY <1>2, <1>3

LEMMA ConsumeStep ==
  ASSUME ScalersInv, NEW c \in Controllers, Consume(c)
  PROVE  ScalersInv'
  <1>1. /\ ScalerTypes /\ RingTells /\ ring \in [Controllers -> Seq(ScalerEvent)]
        /\ ring[c] \in Seq(ScalerEvent) /\ ring[c] # <<>>
    BY DEF ScalersInv, ScalerTypes, Consume
  <1>2. PICK ev \in ScalerEvent : ev = Head(ring[c])
    BY <1>1
  <1>3. PICK new \in [ScalerNames -> ScalerEntry \cup {NoEntry}] : new = Folded(c, ev)
    BY <1>1, FoldedTells
  <1>4. /\ sources' = [sources EXCEPT ![c] = new] /\ ring' = [ring EXCEPT ![c] = Tail(ring[c])]
        /\ sourcesAt' = (IF new = sources[c] THEN sourcesAt ELSE sourcesAt + 1)
        /\ rebuild' = [rebuild EXCEPT ![c] =
                         IF new # sources[c] \/ ev.kind = "Restarted" THEN Due ELSE rebuild[c]]
        /\ lost' = (IF ev.kind = "Restarted" THEN lost \ {c} ELSE lost)
        /\ rebuild[c] = Unset /\ UNCHANGED <<scalers, cache, cacheAt, overtaken>>
    BY <1>2, <1>3 DEF Consume
  <1>5. Tail(ring[c]) \in Seq(ScalerEvent)
    BY <1>1
  <1>6. /\ ring' \in [Controllers -> Seq(ScalerEvent)] /\ ring'[c] = Tail(ring[c])
        /\ \A d \in Controllers \ {c} : ring'[d] = ring[d]
    BY <1>1, <1>4, <1>5
  <1>7. /\ sources' \in [Controllers -> [ScalerNames -> ScalerEntry \cup {NoEntry}]]
        /\ sources'[c] = new /\ \A d \in Controllers \ {c} : sources'[d] = sources[d]
    BY <1>1, <1>4 DEF ScalerTypes
  <1>8. /\ rebuild' \in [Controllers -> Snapshots \cup {Unset, Due}]
        /\ rebuild'[c] \in {Unset, Due} /\ (new # sources[c] => rebuild'[c] = Due)
        /\ \A d \in Controllers \ {c} : rebuild'[d] = rebuild[d]
    BY <1>1, <1>4 DEF ScalerTypes
  <1>9. ScalerTypes'
    BY <1>1, <1>4, <1>6, <1>7, <1>8 DEF ScalerTypes
  <1>10. RingTells'
    <2>1. ASSUME NEW n \in ScalerNames
          PROVE  /\ LastTold(ring'[c], n, scalers'[c][n])
                 /\ NoneTold(ring'[c], n) =>
                      sources'[c][n] = ParseScaler(c, scalers'[c][n]) \/ c \in lost'
      <3>1. /\ LastTold(ring[c], n, scalers[c][n])
            /\ NoneTold(ring[c], n) => sources[c][n] = ParseScaler(c, scalers[c][n]) \/ c \in lost
        BY <1>1 DEF RingTells
      <3>2. /\ LastTold(ring'[c], n, scalers[c][n])
            /\ NoneTold(ring'[c], n) /\ ~Touches(ev, n) => NoneTold(ring[c], n)
            /\ NoneTold(ring'[c], n) /\ Touches(ev, n) => Told(ev, n) = scalers[c][n]
        BY <1>1, <1>2, <1>6, <3>1, LastToldTail
      <3>3. /\ Touches(ev, n) => new[n] = ParseScaler(c, Told(ev, n))
            /\ ~Touches(ev, n) => new[n] = sources[c][n]
        BY <1>1, <1>3, FoldedTells
      <3>4. ~Touches(ev, n) => lost' = lost
        BY <1>4 DEF Touches
      <3> QED BY <1>4, <1>7, <3>1, <3>2, <3>3, <3>4
    <2>2. ASSUME NEW d \in Controllers, d # c, NEW n \in ScalerNames
          PROVE  /\ LastTold(ring'[d], n, scalers'[d][n])
                 /\ NoneTold(ring'[d], n) =>
                      sources'[d][n] = ParseScaler(d, scalers'[d][n]) \/ d \in lost'
      <3>1. ring'[d] = ring[d] /\ scalers'[d] = scalers[d] /\ sources'[d] = sources[d]
            /\ (d \in lost => d \in lost')
        BY <1>4, <1>6, <1>7, <2>2
      <3> QED BY <1>1, <3>1 DEF RingTells
    <2> QED BY <2>1, <2>2 DEF RingTells
  <1>11. CASE new = sources[c]
    <2>1. sources' = sources /\ sourcesAt' = sourcesAt
      BY <1>1, <1>4, <1>11 DEF ScalerTypes
    <2>2. SnapshotsDated'
      BY <1>4, <1>8, <2>1, ScalerAssumption DEF ScalersInv, SnapshotsDated
    <2>3. CacheDated'
      BY <1>4, <2>1 DEF ScalersInv, CacheDated
    <2>4. NewestComing'
      <3>1. NewestComing /\ UNCHANGED <<cacheAt, sourcesAt>>
        BY <1>4, <2>1 DEF ScalersInv
      <3>2. rebuild[c] # Due /\ rebuild[c] \notin Snapshots
        BY <1>4, ScalerAssumption
      <3> QED BY <1>8, <3>1, <3>2 DEF NewestComing
    <2> QED BY <1>9, <1>10, <2>2, <2>3, <2>4 DEF ScalersInv
  <1>12. CASE new # sources[c]
    <2>1. sourcesAt' = sourcesAt + 1 /\ sourcesAt \in Nat /\ cacheAt \in Nat /\ rebuild'[c] = Due
      BY <1>1, <1>4, <1>8, <1>12 DEF ScalerTypes
    <2>2. SnapshotsDated'
      <3> SUFFICES ASSUME NEW d \in Controllers, rebuild'[d] \in Snapshots
                   PROVE  rebuild'[d].at <= sourcesAt' /\ rebuild'[d].at # sourcesAt'
        BY DEF SnapshotsDated
      <3>1. d # c /\ rebuild'[d] = rebuild[d]
        BY <1>8, <2>1, ScalerAssumption
      <3>2. rebuild[d].at \in Nat /\ rebuild[d].at <= sourcesAt
        BY <3>1 DEF ScalersInv, SnapshotsDated, Snapshots
      <3> QED BY <2>1, <3>1, <3>2
    <2>3. CacheDated'
      BY <1>4, <2>1 DEF ScalersInv, CacheDated
    <2>4. NewestComing'
      BY <2>1 DEF NewestComing
    <2> QED BY <1>9, <1>10, <2>2, <2>3, <2>4 DEF ScalersInv
  <1> QED BY <1>11, <1>12

LEMMA SnapshotStep ==
  ASSUME ScalersInv, NEW c \in Controllers, Snapshot(c)
  PROVE  ScalersInv'
  <1>1. /\ ScalerTypes /\ RingTells /\ SnapshotsDated /\ CacheDated /\ NewestComing
        /\ UNCHANGED <<scalers, ring, sources, cache, sourcesAt, cacheAt, overtaken, lost>>
    BY DEF ScalersInv, Snapshot
  <1>2. PICK t : t = [entries |-> Entries(sources), at |-> sourcesAt]
    OBVIOUS
  <1>3. t \in Snapshots /\ t.at = sourcesAt /\ t.entries = Entries(sources)
    BY <1>1, <1>2, EntriesTyped DEF ScalerTypes, Snapshots
  <1>4. /\ rebuild' \in [Controllers -> Snapshots \cup {Unset, Due}] /\ rebuild'[c] = t
        /\ \A d \in Controllers \ {c} : rebuild'[d] = rebuild[d]
    BY <1>1, <1>2, <1>3 DEF ScalerTypes, Snapshot
  <1>5. ScalerTypes' /\ RingTells' /\ CacheDated'
    BY <1>1, <1>4 DEF ScalerTypes, RingTells, CacheDated
  <1>6. SnapshotsDated'
    <2>1. Entries(sources)' = Entries(sources) /\ sourcesAt \in Nat
      BY <1>1 DEF Entries, ScalerTypes
    <2> QED BY <1>1, <1>3, <1>4, <2>1 DEF SnapshotsDated
  <1>7. NewestComing'
    BY <1>1, <1>3, <1>4 DEF NewestComing
  <1> QED BY <1>5, <1>6, <1>7 DEF ScalersInv

\* A snapshot older than the cache marks it overtaken; the newest one brings it up to date.
LEMMA ReplaceCacheStep ==
  ASSUME ScalersInv, NEW c \in Controllers, ReplaceCache(c)
  PROVE  ScalersInv'
  <1>1. /\ ScalerTypes /\ RingTells /\ SnapshotsDated /\ CacheDated /\ NewestComing
        /\ UNCHANGED <<scalers, ring, sources, sourcesAt, lost>>
    BY DEF ScalersInv, ReplaceCache
  <1>2. PICK t : t = rebuild[c]
    OBVIOUS
  <1>3. t \in Snapshots /\ t.at \in Nat
    BY <1>1, <1>2 DEF ScalerTypes, ReplaceCache, Snapshots
  <1>4. /\ cache' = t.entries /\ overtaken' = (t.at < cacheAt)
        /\ cacheAt' = (IF t.at > cacheAt THEN t.at ELSE cacheAt)
        /\ rebuild' = [rebuild EXCEPT ![c] = Unset]
    BY <1>2 DEF ReplaceCache
  <1>5. /\ t.at <= sourcesAt /\ (t.at = sourcesAt => t.entries = Entries(sources))
        /\ sourcesAt \in Nat /\ cacheAt \in Nat /\ cacheAt <= sourcesAt
    BY <1>1, <1>2, <1>3 DEF SnapshotsDated, ScalerTypes, CacheDated
  <1>6. /\ rebuild' \in [Controllers -> Snapshots \cup {Unset, Due}] /\ rebuild'[c] = Unset
        /\ \A d \in Controllers \ {c} : rebuild'[d] = rebuild[d]
    BY <1>1, <1>4 DEF ScalerTypes
  <1>7. /\ cacheAt' \in Nat /\ cacheAt' <= sourcesAt /\ overtaken' \in BOOLEAN
        /\ t.at = sourcesAt \/ cacheAt = sourcesAt => cacheAt' = sourcesAt
        /\ ~overtaken' /\ cacheAt' = sourcesAt => t.at = sourcesAt
    <2>1. /\ cacheAt' \in Nat /\ cacheAt' <= sourcesAt
          /\ t.at = sourcesAt \/ cacheAt = sourcesAt => cacheAt' = sourcesAt
          /\ ~(t.at < cacheAt) => cacheAt' = t.at
      <3>1. cacheAt' = (IF t.at > cacheAt THEN t.at ELSE cacheAt)
        BY <1>4
      <3> QED BY ONLY <1>3, <1>5, <3>1
    <2>2. overtaken' = (t.at < cacheAt)
      BY <1>4
    <2>3. overtaken' \in BOOLEAN /\ (~overtaken' => ~(t.at < cacheAt))
      <3>1. CASE t.at < cacheAt
        <4>1. overtaken'
          BY <2>2, <3>1
        <4>2. overtaken' \in BOOLEAN
          BY <2>2, <3>1
        <4> QED BY <4>1, <4>2
      <3>2. CASE ~(t.at < cacheAt)
        <4>1. overtaken' \in BOOLEAN
          BY <2>2, <3>2
        <4> QED BY <3>2, <4>1
      <3> QED BY <3>1, <3>2
    <2> QED BY <2>1, <2>3
  <1>8. ScalerTypes' /\ RingTells'
    BY <1>1, <1>6, <1>7 DEF ScalerTypes, RingTells
  <1>9. SnapshotsDated'
    <2>1. \A d \in Controllers : rebuild'[d] \in Snapshots => rebuild'[d] = rebuild[d]
      BY <1>6, ScalerAssumption
    <2>2. Entries(sources)' = Entries(sources)
      BY <1>1 DEF Entries
    <2> QED BY <1>1, <2>1, <2>2 DEF SnapshotsDated
  <1>10. CacheDated'
    <2>1. Entries(sources)' = Entries(sources)
      BY <1>1 DEF Entries
    <2> QED BY <1>1, <1>4, <1>5, <1>7, <2>1 DEF CacheDated
  <1>11. NewestComing'
    <2>1. t # Due
      BY <1>2 DEF ReplaceCache
    <2> QED BY <1>1, <1>2, <1>6, <1>7, <2>1 DEF NewestComing
  <1> QED BY <1>8, <1>9, <1>10, <1>11 DEF ScalersInv

LEMMA ScalersStep == ScalersInv /\ [ScalersNext]_scalerVars => ScalersInv'
  <1> SUFFICES ASSUME ScalersInv, [ScalersNext]_scalerVars PROVE ScalersInv'
    OBVIOUS
  <1>1. CASE UNCHANGED scalerVars
    BY <1>1 DEF scalerVars, ScalersInv, ScalerTypes, RingTells, SnapshotsDated, CacheDated,
       NewestComing, Entries
  <1>2. ASSUME NEW c \in Controllers, NEW n \in ScalerNames, NEW s \in Scaler \cup {NoScaler},
               ScalerEdit(c, n, s)
        PROVE  ScalersInv'
    BY <1>2, ScalerEditStep DEF ScalerObject
  <1> QED BY <1>1, <1>2, ScalerRelistStep, ConsumeStep, SnapshotStep, ReplaceCacheStep
          DEF ScalersNext

\* scaler_discovery.rs: what the rings, the sources, the snapshots and the cache know of the
\* cluster, for any controllers, scalers and capacity of the rings.
THEOREM ScalersInvariant == ScalersSpec => []ScalersInv
  BY ScalersStart, ScalersStep, PTL DEF ScalersSpec

\* rebuild_cache and auto_ignore_rules_for: once every event is folded, the differ ignores
\* exactly the fields the autoscalers write, unless an event was lost or a snapshot overtaken.
THEOREM ScalersUpToDate == ScalersSpec => []ScalersCurrent
  <1>1. ScalersInv => ScalersCurrent
    <2> SUFFICES ASSUME ScalersInv, ScalersQuiet, lost = {}, ~overtaken, NEW t \in Targets
                 PROVE  AutoIgnoreRulesFor(t, cache)
                          = AutoIgnoreRulesFor(t, {ParseScaler(c, scalers[c][n]) :
                                             c \in Controllers, n \in ScalerNames} \ {NoEntry})
      BY DEF ScalersCurrent
    <2>1. \A c \in Controllers, n \in ScalerNames : sources[c][n] = ParseScaler(c, scalers[c][n])
      BY DEF ScalersInv, ScalersQuiet, RingTells, NoneTold
    <2>2. cacheAt = sourcesAt
      BY ScalerAssumption DEF ScalersInv, ScalersQuiet, NewestComing
    <2>3. cache = Entries(sources)
      BY <2>2 DEF ScalersInv, CacheDated
    <2>4. cache = {ParseScaler(c, scalers[c][n]) : c \in Controllers, n \in ScalerNames}
                    \ {NoEntry}
      BY <2>1, <2>3 DEF Entries
    <2> QED BY <2>4
  <1> QED BY <1>1, ScalersInvariant, PTL

-----------------------------------------------------------------------------
(* Streams: the notifier.  It works on the last event it read, so the sink *)
(* has nothing newer, and the attempts made for an event bound how often   *)
(* the sink may have taken it.                                             *)

Times(s, n) == Cardinality({i \in DOMAIN s : s[i] = n})

NotifierTypes ==
  /\ published \in Seq(BusEvents) /\ sinkGot \in Seq(Nat)
  /\ notNext \in Nat \ {0} /\ notNext <= Len(published) + 1
  /\ posting # NoPost => /\ posting.attempt \in 1 .. MaxDeliveries /\ posting.evt = notNext - 1
                         /\ posting.evt \in Nat
                         /\ posting = [evt |-> posting.evt, attempt |-> posting.attempt]

SinkBehind ==
  /\ NonDecreasing(sinkGot)
  /\ \A i \in DOMAIN sinkGot : sinkGot[i] < notNext

SinkTimes ==
  /\ \A n \in Nat : Times(sinkGot, n) <= MaxDeliveries
  /\ posting # NoPost => Times(sinkGot, posting.evt) < posting.attempt

OutcomesSettled ==
  \A n \in 1 .. notNext - 1 : Wanted(n) => n \in settled \cup overrun \/ n = posting.evt

NotifierInv == NotifierTypes /\ SinkBehind /\ SinkTimes /\ OutcomesSettled

LEMMA TimesFinite ==
  ASSUME NEW s \in Seq(Nat), NEW n
  PROVE  IsFiniteSet({i \in DOMAIN s : s[i] = n}) /\ Times(s, n) \in Nat
  <1>1. IsFiniteSet(1 .. Len(s))
    BY FS_Interval
  <1>2. IsFiniteSet({i \in DOMAIN s : s[i] = n})
    BY <1>1, FS_Subset
  <1> QED BY <1>2, FS_CardinalityType DEF Times

LEMMA TimesAppend ==
  ASSUME NEW s \in Seq(Nat), NEW e \in Nat, NEW n
  PROVE  /\ e = n => Times(Append(s, e), n) = Times(s, n) + 1
         /\ e # n => Times(Append(s, e), n) = Times(s, n)
  <1> DEFINE S == {i \in DOMAIN s : s[i] = n}
             T == {i \in DOMAIN Append(s, e) : Append(s, e)[i] = n}
  <1>1. /\ DOMAIN Append(s, e) = 1 .. Len(s) + 1 /\ DOMAIN s = 1 .. Len(s) /\ Len(s) \in Nat
        /\ Append(s, e)[Len(s) + 1] = e /\ \A i \in 1 .. Len(s) : Append(s, e)[i] = s[i]
    OBVIOUS
  <1>2. IsFiniteSet(S) /\ Len(s) + 1 \notin S
    <2>1. IsFiniteSet(S)
      BY TimesFinite
    <2>2. Len(s) + 1 \notin S
      BY <1>1
    <2> QED BY <2>1, <2>2
  <1>3. CASE e = n
    <2>1. T = S \cup {Len(s) + 1}
      BY <1>1, <1>3
    <2> HIDE DEF S, T
    <2>2. Cardinality(T) = Cardinality(S) + 1
      BY <1>2, <2>1, FS_AddElement
    <2> QED BY <1>3, <2>2 DEF Times, S, T
  <1>4. CASE e # n
    <2>1. T = S
      BY <1>1, <1>4
    <2> QED BY <1>4, <2>1 DEF Times
  <1> QED BY <1>3, <1>4

LEMMA TimesNone ==
  ASSUME NEW s \in Seq(Nat), NEW n, \A i \in DOMAIN s : s[i] # n
  PROVE  Times(s, n) = 0
  <1>1. {i \in DOMAIN s : s[i] = n} = {}
    OBVIOUS
  <1> QED BY <1>1, FS_EmptySet DEF Times

LEMMA NonDecreasingAppend ==
  ASSUME NEW s \in Seq(Nat), NEW e \in Nat, NonDecreasing(s), \A i \in DOMAIN s : s[i] <= e
  PROVE  NonDecreasing(Append(s, e))
  <1>1. /\ DOMAIN Append(s, e) = 1 .. Len(s) + 1 /\ DOMAIN s = 1 .. Len(s) /\ Len(s) \in Nat
        /\ Append(s, e)[Len(s) + 1] = e /\ \A i \in 1 .. Len(s) : Append(s, e)[i] = s[i]
    OBVIOUS
  <1> SUFFICES ASSUME NEW i \in 1 .. Len(s) + 1, NEW j \in 1 .. Len(s) + 1, i <= j
               PROVE  Append(s, e)[i] <= Append(s, e)[j]
    BY <1>1 DEF NonDecreasing
  <1>2. CASE j = Len(s) + 1
    <2>1. CASE i = Len(s) + 1
      BY <1>1, <1>2, <2>1
    <2>2. CASE i \in 1 .. Len(s)
      BY <1>1, <1>2, <2>2
    <2> QED BY <1>1, <2>1, <2>2
  <1>3. CASE j \in 1 .. Len(s)
    <2>1. i \in 1 .. Len(s)
      BY <1>1, <1>3
    <2> QED BY <1>1, <1>3, <2>1 DEF NonDecreasing
  <1> QED BY <1>1, <1>2, <1>3

LEMMA NotifierStarts ==
  ASSUME published = <<>>, notNext = 1, posting = NoPost, sinkGot = <<>>
  PROVE  NotifierInv
  <1>1. NotifierTypes
    BY DEF NotifierTypes
  <1>2. SinkBehind
    BY DEF SinkBehind, NonDecreasing
  <1>3. SinkTimes
    <2>1. \A n \in Nat : Times(sinkGot, n) = 0
      <3>1. <<>> \in Seq(Nat) /\ DOMAIN <<>> = {}
        OBVIOUS
      <3>2. \A n \in Nat : Times(<<>>, n) = 0
        BY <3>1, TimesNone
      <3> QED BY <3>2
    <2> QED BY <2>1, StreamsAssumption DEF SinkTimes
  <1>4. OutcomesSettled
    BY DEF OutcomesSettled
  <1> QED BY <1>1, <1>2, <1>3, <1>4 DEF NotifierInv

LEMMA NotifierRestarts ==
  ASSUME published' = <<>>, notNext' = 1, posting' = NoPost, sinkGot' = <<>>
  PROVE  NotifierInv'
  <1>1. NotifierTypes'
    BY DEF NotifierTypes
  <1>2. SinkBehind'
    BY DEF SinkBehind, NonDecreasing
  <1>3. SinkTimes'
    <2>1. \A n \in Nat : Times(sinkGot', n) = 0
      <3>1. <<>> \in Seq(Nat) /\ DOMAIN <<>> = {}
        OBVIOUS
      <3>2. \A n \in Nat : Times(<<>>, n) = 0
        BY <3>1, TimesNone
      <3> QED BY <3>2
    <2> QED BY <2>1, StreamsAssumption DEF SinkTimes
  <1>4. OutcomesSettled'
    BY DEF OutcomesSettled
  <1> QED BY <1>1, <1>2, <1>3, <1>4 DEF NotifierInv

LEMMA PublishStep == ASSUME NotifierInv, NEW e \in BusEvents, EventPublish(e) PROVE NotifierInv'
  <1>1. published' = Append(published, e) /\ UNCHANGED notifierVars
    BY DEF EventPublish
  <1>2. /\ published \in Seq(BusEvents) /\ notNext \in Nat \ {0} /\ notNext <= Len(published) + 1
    BY DEF NotifierInv, NotifierTypes
  <1>3. /\ published' \in Seq(BusEvents) /\ Len(published') = Len(published) + 1
        /\ \A n \in 1 .. Len(published) : published'[n] = published[n]
    BY <1>1, <1>2
  <1>4. NotifierTypes'
    BY <1>1, <1>2, <1>3 DEF NotifierInv, NotifierTypes, notifierVars
  <1>5. SinkBehind' /\ SinkTimes'
    BY <1>1 DEF NotifierInv, SinkBehind, SinkTimes, NonDecreasing, Times, notifierVars
  <1>6. OutcomesSettled'
    <2>1. \A n \in 1 .. notNext - 1 : Wanted(n)' <=> Wanted(n)
      BY <1>2, <1>3 DEF Wanted
    <2> QED BY <1>1, <2>1 DEF NotifierInv, OutcomesSettled, notifierVars
  <1> QED BY <1>4, <1>5, <1>6 DEF NotifierInv

\* The receiver may jump; what it jumps over is on record and the sink has none of it.
LEMMA TakeStep == ASSUME NotifierInv, NotifierTake PROVE NotifierInv'
  <1>1. PICK n : n = Recv(notNext, Len(published), BusCap)
    OBVIOUS
  <1>2. /\ posting = NoPost /\ notNext <= Len(published) /\ notNext' = n + 1
        /\ posting' = (IF Wanted(n) THEN [evt |-> n, attempt |-> 1] ELSE NoPost)
        /\ overrun' = overrun \cup (notNext .. n - 1) /\ UNCHANGED <<published, sinkGot, settled>>
    BY <1>1 DEF NotifierTake
  <1>3. /\ published \in Seq(BusEvents) /\ sinkGot \in Seq(Nat) /\ notNext \in Nat \ {0}
        /\ Len(published) \in Nat
    BY DEF NotifierInv, NotifierTypes
  <1>4. n \in Nat \ {0} /\ notNext <= n /\ n <= Len(published)
    BY <1>1, <1>2, <1>3, StreamsAssumption DEF Recv
  <1>5. posting' = NoPost \/ (posting' = [evt |-> n, attempt |-> 1] /\ posting' # NoPost)
    BY <1>2, <1>4 DEF NoPost
  <1>6. NotifierTypes'
    <2>1. CASE posting' = NoPost
      BY <1>2, <1>3, <1>4, <2>1 DEF NotifierTypes, NoPost
    <2>2. CASE posting' = [evt |-> n, attempt |-> 1]
      BY <1>2, <1>3, <1>4, <2>2, StreamsAssumption DEF NotifierTypes
    <2> QED BY <1>5, <2>1, <2>2
  <1>7. \A i \in DOMAIN sinkGot : sinkGot[i] \in Nat /\ sinkGot[i] < notNext
    BY <1>3 DEF NotifierInv, SinkBehind
  <1>8. SinkBehind'
    BY <1>2, <1>3, <1>4, <1>7 DEF NotifierInv, SinkBehind, NonDecreasing
  <1>9. SinkTimes'
    <2>1. \A i \in DOMAIN sinkGot : sinkGot[i] # n
      BY <1>3, <1>4, <1>7
    <2>2. Times(sinkGot, n) = 0
      BY <1>3, <2>1, TimesNone
    <2>3. posting' # NoPost => posting'.evt = n /\ posting'.attempt = 1
      BY <1>5
    <2>4. \A m \in Nat : Times(sinkGot, m) <= MaxDeliveries
      BY DEF NotifierInv, SinkTimes
    <2>5. sinkGot' = sinkGot
      BY <1>2
    <2> QED BY <2>2, <2>3, <2>4, <2>5 DEF SinkTimes, NoPost
  <1>10. OutcomesSettled'
    <2> SUFFICES ASSUME NEW m \in 1 .. notNext' - 1, Wanted(m)'
                 PROVE  m \in settled' \cup overrun' \/ m = posting'.evt
      BY DEF OutcomesSettled
    <2>1. Wanted(m)
      BY <1>2 DEF Wanted
    <2>2. CASE m \in 1 .. notNext - 1
      <3>1. m # posting.evt
        BY <1>2, <2>2 DEF NoPost
      <3> QED BY <1>2, <2>1, <2>2, <3>1 DEF NotifierInv, OutcomesSettled
    <2>3. CASE m \in notNext .. n - 1
      BY <1>2, <2>3
    <2>4. CASE m = n
      BY <1>2, <2>1, <2>4
    <2> QED BY <1>2, <1>3, <1>4, <2>2, <2>3, <2>4
  <1> QED BY <1>6, <1>8, <1>9, <1>10 DEF NotifierInv

LEMMA PostStep ==
  ASSUME NotifierInv, NEW reached \in BOOLEAN, NEW answer, NotifierPost(reached, answer)
  PROVE  NotifierInv'
  <1>1. PICK e, a : e = posting.evt /\ a = posting.attempt
    OBVIOUS
  <1>2. /\ posting = [evt |-> e, attempt |-> a] /\ a \in 1 .. MaxDeliveries /\ e = notNext - 1
        /\ e \in Nat /\ posting # NoPost /\ Times(sinkGot, e) < a
    BY <1>1 DEF NotifierInv, NotifierTypes, SinkTimes, NotifierPost
  <1>3. /\ published \in Seq(BusEvents) /\ sinkGot \in Seq(Nat) /\ notNext \in Nat \ {0}
        /\ MaxDeliveries \in Nat \ {0}
    BY StreamsAssumption DEF NotifierInv, NotifierTypes
  <1>4. sinkGot' = sinkGot \/ sinkGot' = Append(sinkGot, e)
    BY <1>1 DEF NotifierPost
  <1>5. /\ UNCHANGED <<published, notNext, overrun>>
        /\ \/ posting' = NoPost /\ settled' = settled \cup {e}
           \/ /\ posting' = [posting EXCEPT !.attempt = a + 1] /\ settled' = settled
              /\ a # MaxDeliveries
    BY <1>1 DEF NotifierPost, Settles
  <1>6. \/ posting' = NoPost
        \/ posting' = [evt |-> e, attempt |-> a + 1] /\ a + 1 \in 1 .. MaxDeliveries
    BY <1>2, <1>3, <1>5
  <1>7. sinkGot' \in Seq(Nat)
    <2>1. Append(sinkGot, e) \in Seq(Nat)
      BY <1>2, <1>3
    <2> QED BY <1>3, <1>4, <2>1
  <1>8. NotifierTypes'
    <2>1. CASE posting' = NoPost
      BY <1>5, <1>7, <2>1 DEF NotifierTypes, NotifierInv
    <2>2. CASE posting' = [evt |-> e, attempt |-> a + 1] /\ a + 1 \in 1 .. MaxDeliveries
      BY <1>2, <1>5, <1>7, <2>2 DEF NotifierTypes, NotifierInv
    <2> QED BY <1>6, <2>1, <2>2
  <1>9. SinkBehind'
    <2>1. /\ NonDecreasing(sinkGot) /\ \A i \in DOMAIN sinkGot : sinkGot[i] < notNext
          /\ \A i \in DOMAIN sinkGot : sinkGot[i] <= e
      BY <1>2, <1>3 DEF NotifierInv, SinkBehind
    <2>2. NonDecreasing(sinkGot')
      BY <1>2, <1>3, <1>4, <2>1, NonDecreasingAppend
    <2>3. \A i \in DOMAIN sinkGot' : sinkGot'[i] < notNext
      <3>1. CASE sinkGot' = Append(sinkGot, e)
        BY <1>2, <1>3, <2>1, <3>1
      <3> QED BY <1>4, <2>1, <3>1
    <2> QED BY <1>5, <2>2, <2>3 DEF SinkBehind, NonDecreasing
  <1>10. \A n \in Nat : Times(sinkGot, n) \in Nat /\ Times(sinkGot, n) <= MaxDeliveries
    BY <1>3, TimesFinite DEF NotifierInv, SinkTimes
  <1>11. /\ \A n \in Nat : Times(sinkGot', n) <= MaxDeliveries
         /\ Times(sinkGot', e) <= a
    <2>1. CASE sinkGot' = sinkGot
      BY <1>2, <1>10, <2>1
    <2>2. CASE sinkGot' = Append(sinkGot, e)
      <3>1. Times(sinkGot', e) = Times(sinkGot, e) + 1
        BY <1>2, <1>3, <2>2, TimesAppend
      <3>2. Times(sinkGot', e) <= a
        BY <1>2, <1>10, <3>1
      <3>3. \A n \in Nat \ {e} : Times(sinkGot', n) = Times(sinkGot, n)
        BY <1>2, <1>3, <2>2, TimesAppend
      <3>4. Times(sinkGot', e) <= MaxDeliveries
        BY <1>2, <1>3, <1>10, <3>1
      <3> QED BY <1>10, <3>2, <3>3, <3>4
    <2> QED BY <1>4, <2>1, <2>2
  <1>12. SinkTimes'
    <2>1. posting' # NoPost => posting'.evt = e /\ posting'.attempt = a + 1
      BY <1>6
    <2>2. Times(sinkGot', e) \in Nat
      BY <1>7, TimesFinite
    <2>3. Times(sinkGot', e) < a + 1
      BY <1>2, <1>11, <2>2
    <2> QED BY <1>11, <2>1, <2>3 DEF SinkTimes, NoPost
  <1>13. OutcomesSettled'
    <2>1. \A n : Wanted(n)' <=> Wanted(n)
      BY <1>5 DEF Wanted
    <2>2. \/ posting' = NoPost /\ settled' = settled \cup {e}
          \/ posting'.evt = e /\ settled' = settled
      BY <1>2, <1>5
    <2> QED BY <1>1, <1>5, <2>1, <2>2 DEF NotifierInv, OutcomesSettled
  <1> QED BY <1>8, <1>9, <1>12, <1>13 DEF NotifierInv

LEMMA NotifierStep == NotifierInv /\ [StreamsNext]_streamVars => NotifierInv'
  <1> SUFFICES ASSUME NotifierInv, [StreamsNext]_streamVars PROVE NotifierInv'
    OBVIOUS
  <1>1. CASE UNCHANGED <<published, notifierVars>>
    BY <1>1 DEF notifierVars, NotifierInv, NotifierTypes, SinkBehind, SinkTimes, OutcomesSettled,
       NonDecreasing, Times, Wanted
  <1>2. CASE FanInAppend \/ FanInSend \/ UNCHANGED streamVars
    BY <1>1, <1>2 DEF FanInAppend, FanInSend, streamVars, notifierVars
  <1>3. ASSUME NEW c \in Clients,
               \/ \E a \in StreamApps : WatchOpen(c, a)
               \/ WatchSubscribe(c) \/ WatchBacklog(c) \/ WatchRecv(c) \/ WatchDrop(c)
        PROVE  NotifierInv'
    BY <1>1, <1>3 DEF WatchOpen, WatchSubscribe, WatchBacklog, WatchRecv, WatchDrop
  <1>4. CASE StreamsRestart
    <2>1. published' = <<>> /\ notNext' = 1 /\ posting' = NoPost /\ sinkGot' = <<>>
      BY <1>4 DEF StreamsRestart
    <2> QED BY <2>1, NotifierRestarts
  <1> QED BY <1>2, <1>3, <1>4, PublishStep, TakeStep, PostStep DEF StreamsNext

\* Notifier::run and deliver: the inductive invariant holds for any number of apps, events,
\* attempts and restarts.
THEOREM NotifierInvariant == StreamsSpec => []NotifierInv
  <1>1. StreamsInit => NotifierInv
    BY NotifierStarts DEF StreamsInit
  <1> QED BY <1>1, NotifierStep, PTL DEF StreamsSpec

\* The notifier delivers in publication order, at most max_attempts times each, and settles
\* every outcome it is configured for before it reads on, except those it lagged past.
THEOREM OutcomesNotified == StreamsSpec => []NotifiedInOrder
  <1>1. NotifierInv => NotifiedInOrder
    BY DEF NotifierInv, NotifierTypes, SinkBehind, SinkTimes, OutcomesSettled, NotifiedInOrder, Times
  <1> QED BY <1>1, NotifierInvariant, PTL

-----------------------------------------------------------------------------
(* Streams, the watch stream.  A buffer holds the latest ids of its app;   *)
(* a connection is followed from its replay, through the gap before it     *)
(* subscribes, to its place in the channel.                                *)

ConnStates == [pc : {"off", "replayed", "live"}, app : StreamApps \cup {"none"}, since : Nat,
               top : Nat, backlog : Seq(Nat), next : Nat]

WatchTypes ==
  /\ published \in Seq(BusEvents) /\ fanNext \in Nat \ {0} /\ watched \in Seq(StreamApps)
  /\ sentTop \in Nat /\ sentTop <= Len(watched) /\ Len(watched) <= sentTop + 1
  /\ watchLog \in [StreamApps -> Seq(Nat)]
  /\ client \in [Clients -> ConnStates] /\ got \in [Clients -> Seq(Nat)]
  /\ excused \in [Clients -> SUBSET Nat]

Occurs(s, id) == \E i \in DOMAIN s : s[i] = id
Ascends(s) == \A i, j \in DOMAIN s : i < j => s[i] < s[j]

\* A buffer holds the latest ids of its app, oldest first.
WindowOf(a, log) ==
  /\ Ascends(log) /\ Len(log) <= PerAppCap
  /\ \A i \in DOMAIN log : log[i] \in EventsAfter(a, 0)
  /\ \A id \in EventsAfter(a, 0) : Occurs(log, id) \/ Cardinality(EventsAfter(a, id)) >= PerAppCap
BuffersHoldLatest == \A a \in StreamApps : WindowOf(a, watchLog[a])

\* The ids of s never go back, and only `top` may come again.
Ordered(s, top) ==
  /\ NonDecreasing(s)
  /\ \A i, j \in DOMAIN s : i < j /\ s[i] = s[j] => s[i] = top

\* Every id of the app after `since` and before `bound` is in s or accounted for.
Covered(a, since, bound, s, missed) ==
  \A id \in EventsAfter(a, since) : id < bound => Occurs(s, id) \/ id \in missed

\* A connection between its replay and its subscription, and one that is subscribed: s is
\* what the client has and will get without the channel.
ReplayedOk(conn, missed) ==
  /\ Ascends(conn.backlog) /\ conn.top <= Len(watched)
  /\ \A i \in DOMAIN conn.backlog : conn.backlog[i] <= conn.top
  /\ Covered(conn.app, conn.since, conn.top + 1, conn.backlog, missed)
LiveOk(conn, s, missed) ==
  /\ conn.top <= conn.next /\ conn.next <= sentTop + 1
  /\ Ordered(s, conn.top)
  /\ \A i \in DOMAIN s : s[i] < conn.next \/ s[i] = conn.top
  /\ Covered(conn.app, conn.since, conn.next, s, missed)

ConnOk(conn, g, missed) ==
  /\ conn.pc # "off" => conn.app \in StreamApps
  /\ conn.pc = "replayed" => g = <<>> /\ ReplayedOk(conn, missed)
  /\ conn.pc = "live" => LiveOk(conn, g \o conn.backlog, missed)
ConnectionsFed == \A c \in Clients : ConnOk(client[c], got[c], excused[c])

WatchInv == WatchTypes /\ BuffersHoldLatest /\ ConnectionsFed

\* In an ascending sequence the elements above a bound are the last ones.
LEMMA AscendsSplit ==
  ASSUME NEW s \in Seq(Nat), Ascends(s), NEW b \in Nat
  PROVE  \E m \in 1 .. Len(s) + 1 : \A i \in DOMAIN s : s[i] > b <=> i >= m
  <1> DEFINE T == {i \in 1 .. Len(s) + 1 : i \in DOMAIN s => s[i] > b}
  <1>1. Len(s) \in Nat /\ DOMAIN s = 1 .. Len(s) /\ \A i \in DOMAIN s : s[i] \in Nat
    OBVIOUS
  <1>2. T \subseteq Nat /\ Len(s) + 1 \in T
    BY <1>1
  <1>3. PICK m \in T : \A y \in T : ~(<<y, m>> \in OpToRel(<, Nat))
    <2> HIDE DEF T
    <2> QED BY <1>2, WFMin, NatLessThanWellFounded, Zenon
  <1>4. \A y \in T : ~(y < m)
    <2> SUFFICES ASSUME NEW y \in T, y < m PROVE FALSE
      OBVIOUS
    <2>1. <<y, m>> \in OpToRel(<, Nat)
      BY <1>2 DEF OpToRel
    <2> QED BY <1>3, <2>1, Zenon
  <1>5. m \in 1 .. Len(s) + 1
    OBVIOUS
  <1>6. ASSUME NEW i \in DOMAIN s, i >= m PROVE s[i] > b
    <2>1. m \in DOMAIN s /\ s[m] > b
      BY <1>1, <1>5, <1>6
    <2>2. i = m \/ s[m] < s[i]
      BY <1>1, <1>5, <1>6, <2>1 DEF Ascends
    <2> QED BY <1>1, <2>1, <2>2
  <1>7. ASSUME NEW i \in DOMAIN s, ~(i >= m) PROVE ~(s[i] > b)
    <2>1. i \in 1 .. Len(s) + 1 /\ i < m
      BY <1>1, <1>5, <1>7
    <2> QED BY <1>4, <2>1
  <1> QED BY <1>5, <1>6, <1>7

\* Taking a suffix keeps the order, and the elements from there on.
LEMMA AscendsSuffix ==
  ASSUME NEW s \in Seq(Nat), Ascends(s), NEW m \in 1 .. Len(s) + 1
  PROVE  /\ SubSeq(s, m, Len(s)) \in Seq(Nat) /\ Ascends(SubSeq(s, m, Len(s)))
         /\ Len(SubSeq(s, m, Len(s))) = Len(s) - m + 1
         /\ \A id : Occurs(SubSeq(s, m, Len(s)), id) <=> \E i \in DOMAIN s : i >= m /\ s[i] = id
  <1> DEFINE t == SubSeq(s, m, Len(s))
  <1>1. Len(s) \in Nat /\ DOMAIN s = 1 .. Len(s) /\ \A i \in DOMAIN s : s[i] \in Nat
    OBVIOUS
  <1>2. /\ t \in Seq(Nat) /\ Len(t) = IF m <= Len(s) THEN Len(s) - m + 1 ELSE 0
        /\ \A i \in 1 .. Len(s) - m + 1 : t[i] = s[m + i - 1]
    <2>1. m \in Int /\ Len(s) \in Int /\ \A i \in m .. Len(s) : s[i] \in Nat
      BY <1>1
    <2> QED BY <2>1, SubSeqProperties
  <1>3. Len(t) = Len(s) - m + 1 /\ DOMAIN t = 1 .. Len(s) - m + 1
    BY <1>1, <1>2
  <1> HIDE DEF t
  <1>4. Ascends(t)
    <2> SUFFICES ASSUME NEW i \in 1 .. Len(s) - m + 1, NEW j \in 1 .. Len(s) - m + 1, i < j
                 PROVE  t[i] < t[j]
      BY <1>3 DEF Ascends
    <2>1. m + i - 1 \in 1 .. Len(s) /\ m + j - 1 \in 1 .. Len(s) /\ m + i - 1 < m + j - 1
      BY <1>1
    <2> QED BY <1>1, <1>2, <2>1 DEF Ascends
  <1>5. ASSUME NEW id PROVE Occurs(t, id) <=> \E i \in DOMAIN s : i >= m /\ s[i] = id
    <2>1. ASSUME NEW i \in DOMAIN t, t[i] = id PROVE \E k \in DOMAIN s : k >= m /\ s[k] = id
      <3>1. m + i - 1 \in DOMAIN s /\ m + i - 1 >= m
        BY <1>1, <1>3
      <3> QED BY <1>2, <1>3, <2>1, <3>1
    <2>2. ASSUME NEW i \in DOMAIN s, i >= m, s[i] = id PROVE \E k \in DOMAIN t : t[k] = id
      <3>1. i - m + 1 \in DOMAIN t /\ m + (i - m + 1) - 1 = i
        BY <1>1, <1>3, <2>2
      <3>2. t[i - m + 1] = s[i]
        BY <1>2, <1>3, <3>1
      <3> QED BY <2>2, <3>1, <3>2
    <2> QED BY <2>1, <2>2 DEF Occurs
  <1> QED BY <1>2, <1>3, <1>4, <1>5 DEF t

\* AppWatcher::replay returns the buffered ids after `since`, in order, and no other.
LEMMA ReplayKeeps ==
  ASSUME NEW a \in StreamApps, watchLog[a] \in Seq(Nat), Ascends(watchLog[a]), NEW since \in Nat
  PROVE  /\ Replay(a, since) \in Seq(Nat) /\ Ascends(Replay(a, since))
         /\ \A id : Occurs(Replay(a, since), id) <=> Occurs(watchLog[a], id) /\ id > since
  <1>1. PICK s \in Seq(Nat) : s = watchLog[a]
    OBVIOUS
  <1>2. Ascends(s)
    BY <1>1
  <1>3. PICK m \in 1 .. Len(s) + 1 : \A i \in DOMAIN s : s[i] > since <=> i >= m
    BY <1>2, AscendsSplit
  <1>4. Len(s) \in Nat /\ DOMAIN s = 1 .. Len(s)
    OBVIOUS
  <1>5. {i \in DOMAIN s : s[i] > since} = m .. Len(s)
    BY <1>3, <1>4
  <1>6. Cardinality(m .. Len(s)) = Len(s) - m + 1
    <2>1. m \in Int /\ Len(s) \in Int /\ (m > Len(s) => Len(s) - m + 1 = 0)
      BY <1>4
    <2>2. Cardinality(m .. Len(s)) = IF m > Len(s) THEN 0 ELSE Len(s) - m + 1
      BY <2>1, FS_Interval
    <2> QED BY <2>1, <2>2
  <1>7. Len(s) - (Len(s) - m + 1) + 1 = m
    BY <1>4
  <1>8. Replay(a, since) = SubSeq(s, m, Len(s))
    BY <1>1, <1>5, <1>6, <1>7, Zenon DEF Replay
  <1>9. \A id : Occurs(SubSeq(s, m, Len(s)), id) <=> \E i \in DOMAIN s : s[i] > since /\ s[i] = id
    BY <1>2, <1>3, AscendsSuffix
  <1>10. \A id : (\E i \in DOMAIN s : s[i] > since /\ s[i] = id) <=> Occurs(s, id) /\ id > since
    BY DEF Occurs
  <1> QED BY <1>1, <1>2, <1>8, <1>9, <1>10, AscendsSuffix

LEMMA EventsFinite ==
  ASSUME NEW a, NEW since, watched \in Seq(StreamApps)
  PROVE  IsFiniteSet(EventsAfter(a, since)) /\ Cardinality(EventsAfter(a, since)) \in Nat
  <1>1. Len(watched) \in Int
    OBVIOUS
  <1>2. IsFiniteSet(1 .. Len(watched))
    BY <1>1, FS_Interval
  <1>3. EventsAfter(a, since) \subseteq 1 .. Len(watched)
    BY DEF EventsAfter
  <1>4. IsFiniteSet(EventsAfter(a, since))
    BY <1>2, <1>3, FS_Subset
  <1> QED BY <1>4, FS_CardinalityType

\* An ascending sequence is no longer than a set its elements are in.
LEMMA AscendsCount ==
  ASSUME NEW s \in Seq(Nat), Ascends(s), NEW T, IsFiniteSet(T), \A i \in DOMAIN s : s[i] \in T
  PROVE  Len(s) <= Cardinality(T)
  <1>1. Len(s) \in Nat /\ DOMAIN s = 1 .. Len(s) /\ \A i \in DOMAIN s : s[i] \in Nat
    OBVIOUS
  <1>2. s \in [1 .. Len(s) -> T]
    BY <1>1
  <1>3. \A i, j \in 1 .. Len(s) : s[i] = s[j] => i = j
    BY <1>1 DEF Ascends
  <1>4. s \in Injection(1 .. Len(s), T)
    BY <1>2, <1>3 DEF Injection, IsInjective
  <1>5. Cardinality(1 .. Len(s)) = Len(s)
    <2>1. Cardinality(1 .. Len(s)) = IF 1 > Len(s) THEN 0 ELSE Len(s) - 1 + 1
      BY <1>1, FS_Interval
    <2> QED BY <1>1, <2>1
  <1> QED BY <1>4, <1>5, FS_Injection

LEMMA EventsGrow ==
  ASSUME watched \in Seq(StreamApps), NEW b \in StreamApps, watched' = Append(watched, b),
         NEW a \in StreamApps, NEW since \in Nat
  PROVE  /\ EventsAfter(a, since) \subseteq EventsAfter(a, since)'
         /\ EventsAfter(a, since)' \subseteq EventsAfter(a, since) \cup {Len(watched) + 1}
         /\ b # a => EventsAfter(a, since)' = EventsAfter(a, since)
         /\ b = a /\ since <= Len(watched) => Len(watched) + 1 \in EventsAfter(a, since)'
         /\ IsFiniteSet(EventsAfter(a, since)') /\ Cardinality(EventsAfter(a, since)') \in Nat
         /\ Cardinality(EventsAfter(a, since)) <= Cardinality(EventsAfter(a, since)')
  <1>1. /\ Len(watched) \in Nat /\ Len(watched') = Len(watched) + 1 /\ watched'[Len(watched) + 1] = b
        /\ \A i \in 1 .. Len(watched) : watched'[i] = watched[i]
    OBVIOUS
  <1>2. /\ EventsAfter(a, since) \subseteq EventsAfter(a, since)'
        /\ EventsAfter(a, since)' \subseteq EventsAfter(a, since) \cup {Len(watched) + 1}
        /\ b # a => EventsAfter(a, since)' = EventsAfter(a, since)
        /\ b = a /\ since <= Len(watched) => Len(watched) + 1 \in EventsAfter(a, since)'
    BY <1>1 DEF EventsAfter
  <1>3. IsFiniteSet(EventsAfter(a, since) \cup {Len(watched) + 1})
    BY EventsFinite, FS_AddElement
  <1>4. IsFiniteSet(EventsAfter(a, since)')
    BY <1>2, <1>3, FS_Subset
  <1>5. Cardinality(EventsAfter(a, since)) <= Cardinality(EventsAfter(a, since)')
    BY <1>2, <1>4, FS_Subset
  <1> QED BY <1>2, <1>4, <1>5, FS_CardinalityType

\* Inner::append: the buffer still ends with the newest ids of its app, and what it drops has
\* per_app_capacity ids of the app after it.
LEMMA AppendKeepsWindow ==
  ASSUME watched \in Seq(StreamApps), NEW b \in StreamApps, watched' = Append(watched, b),
         NEW log \in Seq(Nat), WindowOf(b, log),
         NEW t, t = AppendWatch(log, Len(watched) + 1)
  PROVE  t \in Seq(Nat) /\ WindowOf(b, t)'
  <1>1. PICK N \in Nat : N = Len(watched)
    OBVIOUS
  <1>2. PICK n \in Nat : n = Len(log)
    OBVIOUS
  <1>3. PICK all : all = Append(log, N + 1)
    OBVIOUS
  <1>4. /\ all \in Seq(Nat) /\ Len(all) = n + 1 /\ all[n + 1] = N + 1
        /\ \A i \in 1 .. n : all[i] = log[i]
    <2>1. N + 1 \in Nat
      OBVIOUS
    <2> QED BY <1>2, <1>3, <2>1, AppendProperties
  <1>5. DOMAIN log = 1 .. n /\ DOMAIN all = 1 .. n + 1 /\ \A i \in 1 .. n : log[i] \in Nat
    BY <1>2, <1>4
  <1>6. /\ PerAppCap \in Nat \ {0} /\ n <= PerAppCap /\ Ascends(log)
        /\ \A i \in 1 .. n : log[i] \in EventsAfter(b, 0)
    BY <1>2, <1>5, StreamsAssumption DEF WindowOf
  <1>7. \A i \in 1 .. n : all[i] \in Nat /\ all[i] < N + 1
    BY <1>1, <1>4, <1>5, <1>6 DEF EventsAfter
  <1>8. \A i \in 1 .. n + 1 : i \in 1 .. n \/ i = n + 1
    OBVIOUS
  <1>9. Ascends(all)
    <2> SUFFICES ASSUME NEW i \in 1 .. n + 1, NEW j \in 1 .. n + 1, i < j
                 PROVE  all[i] < all[j]
      BY <1>5 DEF Ascends
    <2>1. i \in 1 .. n
      OBVIOUS
    <2>2. CASE j = n + 1
      BY <1>4, <1>7, <2>1, <2>2
    <2>3. CASE j \in 1 .. n
      BY <1>4, <1>5, <1>6, <2>1, <2>3 DEF Ascends
    <2> QED BY <1>8, <2>2, <2>3
  <1>10. PICK m : m = IF Len(all) > PerAppCap THEN Len(all) - PerAppCap + 1 ELSE 1
    OBVIOUS
  <1>11. /\ m \in 1 .. n + 1 /\ n + 1 - m + 1 <= PerAppCap
         /\ m = 1 \/ (m = 2 /\ n = PerAppCap)
    <2>1. m = IF n + 1 > PerAppCap THEN n + 1 - PerAppCap + 1 ELSE 1
      <3>1. Len(all) = n + 1
        BY <1>4
      <3>2. PerAppCap \in Nat
        BY <1>6
      <3> QED BY <1>10, <3>1, <3>2
    <2> QED BY <1>6, <2>1
  <1>12. t = SubSeq(all, m, Len(all))
    <2>1. all = Append(log, Len(watched) + 1)
      BY <1>1, <1>3
    <2> QED BY <1>10, <2>1, Zenon DEF AppendWatch
  <1>13. /\ t \in Seq(Nat) /\ Ascends(t) /\ Len(t) = n + 1 - m + 1
         /\ \A id : Occurs(t, id) <=> \E i \in 1 .. n + 1 : i >= m /\ all[i] = id
    <2>1. m \in 1 .. Len(all) + 1
      BY <1>4, <1>11
    <2>2. /\ t \in Seq(Nat) /\ Ascends(t) /\ Len(t) = Len(all) - m + 1
          /\ \A id : Occurs(t, id) <=> \E i \in DOMAIN all : i >= m /\ all[i] = id
      BY <1>4, <1>9, <1>12, <2>1, AscendsSuffix
    <2>3. Len(all) = n + 1
      BY <1>4
    <2>4. Len(t) = n + 1 - m + 1
      BY <1>11, <2>2, <2>3
    <2>5. \A id : Occurs(t, id) <=> \E i \in 1 .. n + 1 : i >= m /\ all[i] = id
      BY <1>5, <2>2, Zenon
    <2> QED BY <2>2, <2>4, <2>5
  <1>14. \A since \in Nat :
           /\ EventsAfter(b, since)' \subseteq EventsAfter(b, since) \cup {N + 1}
           /\ EventsAfter(b, since) \subseteq EventsAfter(b, since)'
           /\ since <= N => N + 1 \in EventsAfter(b, since)'
           /\ IsFiniteSet(EventsAfter(b, since)') /\ Cardinality(EventsAfter(b, since)') \in Nat
           /\ Cardinality(EventsAfter(b, since)) <= Cardinality(EventsAfter(b, since)')
    BY <1>1, EventsGrow
  <1>15. \A i \in 1 .. n + 1 : all[i] \in EventsAfter(b, 0)'
    <2>1. 0 \in Nat /\ 0 <= N
      OBVIOUS
    <2>2. N + 1 \in EventsAfter(b, 0)' /\ EventsAfter(b, 0) \subseteq EventsAfter(b, 0)'
      BY <1>14, <2>1
    <2> QED BY <1>4, <1>6, <1>8, <2>2
  <1>16. \A i \in DOMAIN t : t[i] \in EventsAfter(b, 0)'
    <2> SUFFICES ASSUME NEW i \in DOMAIN t PROVE t[i] \in EventsAfter(b, 0)'
      OBVIOUS
    <2>1. PICK k \in 1 .. n + 1 : all[k] = t[i]
      BY <1>13 DEF Occurs
    <2> QED BY <1>15, <2>1
  <1>17. ASSUME NEW id \in EventsAfter(b, 0)'
         PROVE  Occurs(t, id) \/ Cardinality(EventsAfter(b, id)') >= PerAppCap
    <2>1. id \in Nat /\ (id \in EventsAfter(b, 0) \/ id = N + 1)
      <3>1. id \in Nat
        BY DEF EventsAfter
      <3>2. EventsAfter(b, 0)' \subseteq EventsAfter(b, 0) \cup {N + 1}
        BY <1>14
      <3> QED BY <3>1, <3>2
    <2>2. CASE id = N + 1
      <3>1. n + 1 \in 1 .. n + 1 /\ n + 1 >= m
        BY <1>11
      <3> QED BY <1>4, <1>13, <2>2, <3>1
    <2>3. CASE id \in EventsAfter(b, 0) /\ ~Occurs(log, id)
      <3>1. Cardinality(EventsAfter(b, id)) >= PerAppCap
        BY <2>3 DEF WindowOf
      <3>2. Cardinality(EventsAfter(b, id)) \in Nat
        BY EventsFinite
      <3> QED BY <1>6, <1>14, <2>1, <3>1, <3>2
    <2>4. CASE Occurs(log, id)
      <3>1. PICK k \in 1 .. n : log[k] = id
        BY <1>5, <2>4 DEF Occurs
      <3>2. k \in 1 .. n + 1 /\ all[k] = id
        BY <1>4, <3>1
      <3>3. CASE k >= m
        BY <1>13, <3>2, <3>3
      <3>4. CASE ~(k >= m)
        <4>1. m = 2 /\ k = 1 /\ n = PerAppCap
          BY <1>11, <3>4
        <4>2. Len(t) = PerAppCap
          BY <1>13, <4>1
        <4>3. \A i \in DOMAIN t : t[i] \in EventsAfter(b, id)'
          <5> SUFFICES ASSUME NEW i \in DOMAIN t PROVE t[i] \in EventsAfter(b, id)'
            OBVIOUS
          <5>1. PICK j \in 1 .. n + 1 : j >= 2 /\ all[j] = t[i]
            BY <1>13, <4>1 DEF Occurs
          <5>2. 1 \in DOMAIN all /\ j \in DOMAIN all /\ 1 < j
            BY <1>5, <5>1
          <5>3. all[1] < all[j]
            BY <1>9, <5>2 DEF Ascends
          <5>4. id < t[i]
            BY <3>2, <4>1, <5>1, <5>3
          <5> QED BY <1>16, <5>4 DEF EventsAfter
        <4>4. IsFiniteSet(EventsAfter(b, id)') /\ Cardinality(EventsAfter(b, id)') \in Nat
          BY <1>14, <2>1
        <4>5. Len(t) <= Cardinality(EventsAfter(b, id)')
          BY <1>13, <4>3, <4>4, AscendsCount
        <4> QED BY <1>6, <4>2, <4>4, <4>5
      <3> QED BY <3>3, <3>4
    <2> QED BY <2>1, <2>2, <2>3, <2>4
  <1>18. Len(t) <= PerAppCap
    BY <1>11, <1>13
  <1> QED BY <1>13, <1>16, <1>17, <1>18 DEF WindowOf

\* One client moves: its new connection is what has to be shown.
LEMMA ClientMoves ==
  ASSUME WatchInv, UNCHANGED <<published, watcherVars>>,
         NEW c \in Clients, NEW conn \in ConnStates, NEW g \in Seq(Nat), NEW missed \in SUBSET Nat,
         client' = [client EXCEPT ![c] = conn], got' = [got EXCEPT ![c] = g],
         excused' = [excused EXCEPT ![c] = missed], ConnOk(conn, g, missed)
  PROVE  WatchInv'
  <1>1. UNCHANGED <<published, fanNext, watched, sentTop, watchLog>>
    BY DEF watcherVars
  <1>2. WatchTypes'
    BY <1>1 DEF WatchInv, WatchTypes
  <1>3. BuffersHoldLatest'
    BY <1>1 DEF WatchInv, BuffersHoldLatest, WindowOf, EventsAfter
  <1>4. ASSUME NEW k \in ConnStates, NEW s \in Seq(Nat), NEW e \in SUBSET Nat, ConnOk(k, s, e)
        PROVE  ConnOk(k, s, e)'
    BY <1>1, <1>4 DEF ConnOk, ReplayedOk, LiveOk, Covered, EventsAfter
  <1>5. ConnectionsFed'
    <2> SUFFICES ASSUME NEW d \in Clients PROVE ConnOk(client[d], got[d], excused[d])'
      BY DEF ConnectionsFed
    <2>1. /\ client \in [Clients -> ConnStates] /\ got \in [Clients -> Seq(Nat)]
          /\ excused \in [Clients -> SUBSET Nat]
      BY DEF WatchInv, WatchTypes
    <2>2. CASE d = c
      <3>1. client'[d] = conn /\ got'[d] = g /\ excused'[d] = missed
        BY <2>1, <2>2
      <3>2. ConnOk(conn, g, missed)'
        BY <1>4
      <3> QED BY <3>1, <3>2
    <2>3. CASE d # c
      <3>1. PICK k \in ConnStates, s \in Seq(Nat), e \in SUBSET Nat :
              k = client[d] /\ s = got[d] /\ e = excused[d]
        BY <2>1
      <3>2. client'[d] = k /\ got'[d] = s /\ excused'[d] = e
        BY <2>1, <2>3, <3>1
      <3>3. ConnOk(k, s, e)
        BY <3>1 DEF WatchInv, ConnectionsFed
      <3>4. ConnOk(k, s, e)'
        BY <1>4, <3>3
      <3> QED BY <3>2, <3>4
    <2> QED BY <2>2, <2>3
  <1> QED BY <1>2, <1>3, <1>5 DEF WatchInv

LEMMA WatchOpenStep ==
  ASSUME WatchInv, NEW c \in Clients, NEW a \in StreamApps, WatchOpen(c, a)
  PROVE  WatchInv'
  <1>1. /\ watched \in Seq(StreamApps) /\ Len(watched) \in Nat /\ watchLog[a] \in Seq(Nat)
        /\ client[c] \in ConnStates /\ client[c].since \in Nat /\ WindowOf(a, watchLog[a])
    BY DEF WatchInv, WatchTypes, ConnStates, BuffersHoldLatest
  <1>2. PICK since \in Nat : since = client[c].since
    BY <1>1
  <1>3. PICK b : b = Replay(a, since)
    OBVIOUS
  <1>4. Ascends(watchLog[a])
    BY <1>1 DEF WindowOf
  <1>5. /\ b \in Seq(Nat) /\ Ascends(b)
        /\ \A id : Occurs(b, id) <=> Occurs(watchLog[a], id) /\ id > since
    BY <1>1, <1>3, <1>4, ReplayKeeps
  <1>6. PICK conn : conn = [Offline EXCEPT !.pc = "replayed", !.app = a, !.since = since,
                                           !.top = Len(watched), !.backlog = b]
    OBVIOUS
  <1>7. Offline \in ConnStates
    BY DEF Offline, ConnStates
  <1>8. PICK missed : missed = FellOut(a, since)
    OBVIOUS
  <1>9. missed \in SUBSET Nat
    BY <1>8 DEF FellOut, EventsAfter
  <1>10. /\ client' = [client EXCEPT ![c] = conn] /\ got' = [got EXCEPT ![c] = <<>>]
         /\ excused' = [excused EXCEPT ![c] = missed] /\ UNCHANGED <<published, watcherVars>>
    BY <1>2, <1>3, <1>6, <1>8, Zenon DEF WatchOpen
  <1>11. \A i \in DOMAIN b : b[i] <= Len(watched)
    <2> SUFFICES ASSUME NEW i \in DOMAIN b PROVE b[i] <= Len(watched)
      OBVIOUS
    <2>1. Occurs(watchLog[a], b[i])
      BY <1>5 DEF Occurs
    <2>2. b[i] \in EventsAfter(a, 0)
      BY <1>1, <2>1 DEF WindowOf, Occurs
    <2> QED BY <2>2 DEF EventsAfter
  <1>12. Covered(a, since, Len(watched) + 1, b, missed)
    <2> SUFFICES ASSUME NEW id \in EventsAfter(a, since) PROVE Occurs(b, id) \/ id \in missed
      BY DEF Covered
    <2>1. id \in EventsAfter(a, 0) /\ id > since
      BY DEF EventsAfter
    <2>2. Occurs(watchLog[a], id) \/ Cardinality(EventsAfter(a, id)) >= PerAppCap
      BY <1>1, <2>1 DEF WindowOf
    <2> QED BY <1>5, <1>8, <2>1, <2>2 DEF FellOut
  <1>13. /\ conn \in ConnStates /\ conn.pc = "replayed" /\ conn.app = a /\ conn.since = since
         /\ conn.top = Len(watched) /\ conn.backlog = b
    BY <1>1, <1>5, <1>6, <1>7 DEF ConnStates
  <1>14. ReplayedOk(conn, missed)
    BY <1>1, <1>5, <1>11, <1>12, <1>13 DEF ReplayedOk
  <1>15. ConnOk(conn, <<>>, missed)
    BY <1>13, <1>14 DEF ConnOk
  <1>16. <<>> \in Seq(Nat)
    OBVIOUS
  <1> QED BY <1>9, <1>10, <1>13, <1>15, <1>16, ClientMoves

LEMMA WatchSubscribeStep ==
  ASSUME WatchInv, NEW c \in Clients, WatchSubscribe(c)
  PROVE  WatchInv'
  <1>1. PICK old \in ConnStates : old = client[c]
    BY DEF WatchInv, WatchTypes
  <1>2. PICK was \in SUBSET Nat : was = excused[c]
    BY DEF WatchInv, WatchTypes
  <1>3. /\ watched \in Seq(StreamApps) /\ Len(watched) \in Nat /\ sentTop \in Nat
        /\ Len(watched) <= sentTop + 1
        /\ client \in [Clients -> ConnStates] /\ got \in [Clients -> Seq(Nat)]
        /\ excused \in [Clients -> SUBSET Nat]
    BY DEF WatchInv, WatchTypes
  <1>4. old.pc = "replayed"
    BY <1>1 DEF WatchSubscribe
  <1>5. old.app \in StreamApps /\ got[c] = <<>> /\ ReplayedOk(old, was)
    BY <1>1, <1>2, <1>4 DEF WatchInv, ConnectionsFed, ConnOk
  <1>6. PICK conn : conn = [old EXCEPT !.pc = "live", !.next = sentTop + 1]
    OBVIOUS
  <1>7. /\ conn \in ConnStates /\ conn.pc = "live" /\ conn.next = sentTop + 1 /\ conn.top = old.top
        /\ conn.app = old.app /\ conn.since = old.since /\ conn.backlog = old.backlog
        /\ old.top \in Nat /\ old.backlog \in Seq(Nat) /\ old.since \in Nat
    <2>1. sentTop + 1 \in Nat
      BY <1>3
    <2> QED BY <1>6, <2>1 DEF ConnStates
  <1>8. PICK missed : missed = was \cup (old.top + 1 .. sentTop)
    OBVIOUS
  <1>9. missed \in SUBSET Nat
    <2>1. \A i \in old.top + 1 .. sentTop : i \in Nat
      BY <1>3, <1>7
    <2> QED BY <1>8, <2>1
  <1>10. /\ client' = [client EXCEPT ![c] = conn] /\ got' = [got EXCEPT ![c] = <<>>]
         /\ excused' = [excused EXCEPT ![c] = missed] /\ UNCHANGED <<published, watcherVars>>
    <2>1. client' = [client EXCEPT ![c] = conn]
      BY <1>1, <1>3, <1>6 DEF WatchSubscribe
    <2>2. got' = [got EXCEPT ![c] = <<>>]
      BY <1>3, <1>5 DEF WatchSubscribe
    <2>3. excused' = [excused EXCEPT ![c] = missed] /\ UNCHANGED <<published, watcherVars>>
      BY <1>1, <1>2, <1>8 DEF WatchSubscribe
    <2> QED BY <2>1, <2>2, <2>3
  <1>11. PICK b \in Seq(Nat) : b = old.backlog
    BY <1>7
  <1>12. DOMAIN b = 1 .. Len(b) /\ \A i \in DOMAIN b : b[i] \in Nat /\ b[i] <= old.top
    BY <1>5, <1>11 DEF ReplayedOk
  <1>13. Ascends(b)
    BY <1>5, <1>11 DEF ReplayedOk
  <1>14. Ordered(b, old.top)
    BY <1>12, <1>13 DEF Ordered, NonDecreasing, Ascends
  <1>15. old.top <= sentTop + 1
    BY <1>3, <1>5, <1>7 DEF ReplayedOk
  <1>16. Covered(old.app, old.since, sentTop + 1, b, missed)
    <2> SUFFICES ASSUME NEW id \in EventsAfter(old.app, old.since), id < sentTop + 1
                 PROVE  Occurs(b, id) \/ id \in missed
      BY DEF Covered
    <2>1. id \in Nat
      BY DEF EventsAfter
    <2>2. id < old.top + 1 => Occurs(b, id) \/ id \in was
      BY <1>5, <1>11 DEF ReplayedOk, Covered
    <2> QED BY <1>3, <1>7, <1>8, <2>1, <2>2
  <1>17. \A i \in DOMAIN b : b[i] < sentTop + 1 \/ b[i] = old.top
    BY <1>3, <1>7, <1>12, <1>15
  <1>18. LiveOk(conn, b, missed)
    BY <1>3, <1>7, <1>14, <1>15, <1>16, <1>17 DEF LiveOk
  <1>19. <<>> \o conn.backlog = b
    BY <1>7, <1>11, ConcatEmptySeq
  <1>20. ConnOk(conn, <<>>, missed)
    BY <1>5, <1>7, <1>18, <1>19 DEF ConnOk
  <1>21. <<>> \in Seq(Nat)
    OBVIOUS
  <1> QED BY <1>7, <1>9, <1>10, <1>20, <1>21, ClientMoves

\* Yielding the head of the backlog changes nothing of what the client has and will get.
LEMMA HeadMoves ==
  ASSUME NEW g \in Seq(Nat), NEW b \in Seq(Nat), b # <<>>
  PROVE  Append(g, Head(b)) \o Tail(b) = g \o b
  <1>1. PICK h \in Nat, r \in Seq(Nat) : h = Head(b) /\ r = Tail(b)
    BY HeadTailProperties
  <1>2. b = <<h>> \o r
    <2>1. /\ Len(b) \in Nat \ {0} /\ b[1] = h /\ Len(r) = Len(b) - 1
          /\ \A i \in 1 .. Len(r) : r[i] = b[i + 1]
      BY <1>1, HeadTailProperties
    <2>2. <<h>> \in Seq(Nat) /\ Len(<<h>>) = 1 /\ <<h>>[1] = h
      OBVIOUS
    <2>3. /\ <<h>> \o r \in Seq(Nat) /\ Len(<<h>> \o r) = 1 + Len(r)
          /\ \A i \in 1 .. 1 + Len(r) : (<<h>> \o r)[i] = IF i <= 1 THEN <<h>>[i] ELSE r[i - 1]
      BY <2>2, ConcatProperties
    <2>4. Len(b) = Len(<<h>> \o r)
      BY <2>1, <2>3
    <2>5. ASSUME NEW i \in 1 .. Len(b) PROVE b[i] = (<<h>> \o r)[i]
      <3>1. CASE i = 1
        BY <2>1, <2>2, <2>3, <3>1
      <3>2. CASE i # 1
        <4>1. i - 1 \in 1 .. Len(r) /\ ~(i <= 1) /\ i \in 1 .. 1 + Len(r) /\ (i - 1) + 1 = i
          BY <2>1, <3>2
        <4>2. r[i - 1] = b[i]
          BY <2>1, <4>1
        <4> QED BY <2>3, <4>1, <4>2
      <3> QED BY <3>1, <3>2
    <2> QED BY <2>3, <2>4, <2>5, SeqEqual
  <1>3. Append(g, h) = g \o <<h>>
    BY AppendIsConcat
  <1>4. <<h>> \in Seq(Nat)
    OBVIOUS
  <1>5. (g \o <<h>>) \o r = g \o (<<h>> \o r)
    BY <1>4, ConcatAssociative
  <1> QED BY <1>1, <1>2, <1>3, <1>5

LEMMA WatchBacklogStep ==
  ASSUME WatchInv, NEW c \in Clients, WatchBacklog(c)
  PROVE  WatchInv'
  <1>1. /\ client \in [Clients -> ConnStates] /\ got \in [Clients -> Seq(Nat)]
        /\ excused \in [Clients -> SUBSET Nat]
    BY DEF WatchInv, WatchTypes
  <1>2. PICK old \in ConnStates, was \in Seq(Nat), missed \in SUBSET Nat :
          old = client[c] /\ was = got[c] /\ missed = excused[c]
    BY <1>1
  <1>3. PICK b \in Seq(Nat) : b = old.backlog
    BY DEF ConnStates
  <1>4. old.pc = "live" /\ b # <<>>
    BY <1>2, <1>3 DEF WatchBacklog
  <1>5. old.app \in StreamApps /\ LiveOk(old, was \o b, missed)
    BY <1>2, <1>3, <1>4 DEF WatchInv, ConnectionsFed, ConnOk
  <1>6. PICK conn : conn = [old EXCEPT !.backlog = Tail(b)]
    OBVIOUS
  <1>7. PICK g : g = Append(was, Head(b))
    OBVIOUS
  <1>8. Head(b) \in Nat /\ Tail(b) \in Seq(Nat) /\ g \in Seq(Nat)
    BY <1>4, <1>7, HeadTailProperties, AppendProperties
  <1>9. /\ conn \in ConnStates /\ conn.pc = "live" /\ conn.app = old.app /\ conn.since = old.since
        /\ conn.top = old.top /\ conn.next = old.next /\ conn.backlog = Tail(b)
    BY <1>4, <1>6, <1>8 DEF ConnStates
  <1>10. g \o conn.backlog = was \o b
    BY <1>4, <1>7, <1>9, HeadMoves
  <1>11. LiveOk(conn, was \o b, missed)
    BY <1>5, <1>9 DEF LiveOk
  <1>12. ConnOk(conn, g, missed)
    BY <1>5, <1>9, <1>10, <1>11 DEF ConnOk
  <1>13. client' = [client EXCEPT ![c] = conn]
    BY <1>1, <1>2, <1>3, <1>6 DEF WatchBacklog
  <1>14. got' = [got EXCEPT ![c] = g]
    BY <1>1, <1>2, <1>3, <1>7 DEF WatchBacklog
  <1>15. excused' = [excused EXCEPT ![c] = missed] /\ UNCHANGED <<published, watcherVars>>
    BY <1>1, <1>2 DEF WatchBacklog
  <1> QED BY <1>8, <1>9, <1>12, <1>13, <1>14, <1>15, ClientMoves

\* An id from the channel comes after every id the client has, or repeats `top`.
LEMMA OrderedAppend ==
  ASSUME NEW s \in Seq(Nat), NEW top \in Nat, NEW next \in Nat, NEW n \in Nat,
         Ordered(s, top), top <= next, next <= n,
         \A i \in DOMAIN s : s[i] < next \/ s[i] = top
  PROVE  Ordered(Append(s, n), top) /\ \A i \in DOMAIN Append(s, n) : Append(s, n)[i] <= n
  <1>0. PICK k \in Nat : k = Len(s)
    OBVIOUS
  <1>1. PICK t : t = Append(s, n)
    OBVIOUS
  <1>2. /\ DOMAIN s = 1 .. k /\ DOMAIN t = 1 .. k + 1 /\ t[k + 1] = n
        /\ \A i \in 1 .. k : t[i] = s[i] /\ s[i] \in Nat
    BY <1>0, <1>1, AppendProperties
  <1>3. \A i \in 1 .. k : s[i] <= n /\ (s[i] = n => s[i] = top)
    <2> SUFFICES ASSUME NEW i \in 1 .. k PROVE s[i] <= n /\ (s[i] = n => s[i] = top)
      OBVIOUS
    <2>1. s[i] \in Nat /\ (s[i] < next \/ s[i] = top)
      BY <1>2
    <2> QED BY <2>1
  <1>4. \A i \in 1 .. k + 1 : i \in 1 .. k \/ i = k + 1
    OBVIOUS
  <1>5. \A i \in 1 .. k + 1 : t[i] <= n
    BY <1>2, <1>3, <1>4
  <1>6. ASSUME NEW i \in 1 .. k + 1, NEW j \in 1 .. k + 1
        PROVE  /\ i <= j => t[i] <= t[j]
               /\ i < j /\ t[i] = t[j] => t[i] = top
    <2>1. CASE j = k + 1
      BY <1>2, <1>3, <1>4, <1>5, <2>1
    <2>2. CASE j \in 1 .. k /\ i \in 1 .. k
      BY <1>2, <2>2 DEF Ordered, NonDecreasing
    <2>3. CASE j \in 1 .. k /\ i = k + 1
      BY <2>3
    <2> QED BY <1>4, <2>1, <2>2, <2>3
  <1>7. Ordered(t, top)
    BY <1>2, <1>6 DEF Ordered, NonDecreasing
  <1> QED BY <1>1, <1>2, <1>5, <1>7

LEMMA WatchRecvStep ==
  ASSUME WatchInv, NEW c \in Clients, WatchRecv(c)
  PROVE  WatchInv'
  <1>1. /\ client \in [Clients -> ConnStates] /\ got \in [Clients -> Seq(Nat)]
        /\ excused \in [Clients -> SUBSET Nat] /\ sentTop \in Nat /\ WatchCap \in Nat \ {0}
        /\ watched \in Seq(StreamApps) /\ Len(watched) \in Nat /\ sentTop <= Len(watched)
    BY StreamsAssumption DEF WatchInv, WatchTypes
  <1>2. PICK old \in ConnStates, was \in Seq(Nat), ex \in SUBSET Nat :
          old = client[c] /\ was = got[c] /\ ex = excused[c]
    BY <1>1
  <1>3. PICK next \in Nat, top \in Nat : next = old.next /\ top = old.top
    BY DEF ConnStates
  <1>4. old.pc = "live" /\ old.backlog = <<>> /\ next <= sentTop
    BY <1>2, <1>3 DEF WatchRecv
  <1>5. was \o old.backlog = was
    BY <1>4, ConcatEmptySeq
  <1>6. old.app \in StreamApps /\ LiveOk(old, was, ex) /\ old.since \in Nat
    BY <1>2, <1>4, <1>5 DEF WatchInv, ConnectionsFed, ConnOk, ConnStates
  <1>7. PICK n : n = Recv(next, sentTop, WatchCap)
    OBVIOUS
  <1>8. n \in Nat /\ next <= n /\ n <= sentTop
    BY <1>1, <1>4, <1>7 DEF Recv
  <1>9. PICK conn : conn = [old EXCEPT !.next = n + 1]
    OBVIOUS
  <1>10. /\ conn \in ConnStates /\ conn.pc = "live" /\ conn.app = old.app /\ conn.since = old.since
         /\ conn.top = top /\ conn.next = n + 1 /\ conn.backlog = <<>>
    BY <1>3, <1>4, <1>8, <1>9 DEF ConnStates
  <1>11. PICK g : g = IF watched[n] = old.app THEN Append(was, n) ELSE was
    OBVIOUS
  <1>12. PICK missed : missed = ex \cup (next .. n - 1)
    OBVIOUS
  <1>13. missed \in SUBSET Nat
    BY <1>8, <1>12
  <1>14. g \in Seq(Nat)
    BY <1>8, <1>11
  <1>15. client' = [client EXCEPT ![c] = conn]
    BY <1>1, <1>2, <1>3, <1>7, <1>9 DEF WatchRecv
  <1>16. got' = [got EXCEPT ![c] = g]
    BY <1>1, <1>2, <1>3, <1>7, <1>11 DEF WatchRecv
  <1>17. excused' = [excused EXCEPT ![c] = missed] /\ UNCHANGED <<published, watcherVars>>
    BY <1>1, <1>2, <1>3, <1>7, <1>12 DEF WatchRecv
  <1>18. /\ top <= next /\ Ordered(was, top) /\ Covered(old.app, old.since, next, was, ex)
         /\ \A i \in DOMAIN was : was[i] < next \/ was[i] = top
    BY <1>3, <1>6 DEF LiveOk
  <1>19. \A i \in DOMAIN was : was[i] \in Nat
    OBVIOUS
  <1>20. Ordered(g, top) /\ \A i \in DOMAIN g : g[i] < n + 1 \/ g[i] = top
    <2>1. CASE g = was
      BY <1>8, <1>18, <1>19, <2>1
    <2>2. CASE g = Append(was, n)
      <3>1. Ordered(g, top) /\ \A i \in DOMAIN g : g[i] <= n
        BY <1>8, <1>18, <2>2, OrderedAppend
      <3>2. \A i \in DOMAIN g : g[i] \in Nat
        BY <1>14
      <3> QED BY <1>8, <3>1, <3>2
    <2> QED BY <1>11, <2>1, <2>2
  <1>21. Covered(old.app, old.since, n + 1, g, missed)
    <2> SUFFICES ASSUME NEW id \in EventsAfter(old.app, old.since), id < n + 1
                 PROVE  Occurs(g, id) \/ id \in missed
      BY DEF Covered
    <2>1. id \in Nat /\ watched[id] = old.app
      BY DEF EventsAfter
    <2>2. /\ Len(was) \in Nat /\ Append(was, n)[Len(was) + 1] = n
          /\ Len(was) + 1 \in DOMAIN Append(was, n)
          /\ \A i \in DOMAIN was : i \in DOMAIN Append(was, n) /\ Append(was, n)[i] = was[i]
      BY <1>8
    <2>3. CASE id = n
      BY <1>11, <2>1, <2>2, <2>3 DEF Occurs
    <2>4. CASE id \in next .. n - 1
      BY <1>12, <2>4
    <2>5. CASE id < next
      <3>1. Occurs(was, id) \/ id \in ex
        BY <1>18, <2>5 DEF Covered
      <3>2. Occurs(was, id) => Occurs(g, id)
        BY <1>11, <2>2 DEF Occurs
      <3> QED BY <1>12, <3>1, <3>2
    <2> QED BY <1>8, <2>1, <2>3, <2>4, <2>5
  <1>22. top <= n + 1 /\ n + 1 <= sentTop + 1
    BY <1>1, <1>8, <1>18
  <1>23. LiveOk(conn, g, missed)
    BY <1>10, <1>20, <1>21, <1>22 DEF LiveOk
  <1>24. g \o conn.backlog = g
    BY <1>10, <1>14, ConcatEmptySeq
  <1>25. ConnOk(conn, g, missed)
    BY <1>6, <1>10, <1>23, <1>24 DEF ConnOk
  <1> QED BY <1>10, <1>13, <1>14, <1>15, <1>16, <1>17, <1>25, ClientMoves

LEMMA LastSeenTyped ==
  ASSUME WatchTypes, NEW c \in Clients
  PROVE  LastSeen(c) \in Nat /\ [Offline EXCEPT !.since = LastSeen(c)] \in ConnStates
         /\ [Offline EXCEPT !.since = LastSeen(c)].pc = "off"
  <1>1. got[c] \in Seq(Nat) /\ client[c].since \in Nat
    BY DEF WatchTypes, ConnStates
  <1>2. LastSeen(c) \in Nat
    <2>1. CASE got[c] = <<>>
      BY <1>1, <2>1 DEF LastSeen
    <2>2. CASE got[c] # <<>>
      <3>1. Len(got[c]) \in DOMAIN got[c]
        BY <1>1, <2>2
      <3> QED BY <1>1, <2>2, <3>1 DEF LastSeen
    <2> QED BY <2>1, <2>2
  <1>3. Offline \in ConnStates /\ Offline.pc = "off"
    BY DEF Offline, ConnStates
  <1> QED BY <1>2, <1>3 DEF ConnStates

LEMMA WatchDropStep ==
  ASSUME WatchInv, NEW c \in Clients, WatchDrop(c)
  PROVE  WatchInv'
  <1>1. /\ WatchTypes /\ client \in [Clients -> ConnStates] /\ got \in [Clients -> Seq(Nat)]
        /\ excused \in [Clients -> SUBSET Nat]
    BY DEF WatchInv, WatchTypes
  <1>2. PICK conn : conn = [Offline EXCEPT !.since = LastSeen(c)]
    OBVIOUS
  <1>3. conn \in ConnStates /\ conn.pc = "off"
    BY <1>1, <1>2, LastSeenTyped
  <1>4. PICK g \in Seq(Nat), missed \in SUBSET Nat : g = got[c] /\ missed = excused[c]
    BY <1>1
  <1>5. /\ client' = [client EXCEPT ![c] = conn] /\ got' = [got EXCEPT ![c] = g]
        /\ excused' = [excused EXCEPT ![c] = missed] /\ UNCHANGED <<published, watcherVars>>
    BY <1>1, <1>2, <1>4 DEF WatchDrop
  <1>6. ConnOk(conn, g, missed)
    BY <1>3 DEF ConnOk
  <1> QED BY <1>3, <1>5, <1>6, ClientMoves

\* The fan-in task appends: an id the clients' subscriptions have not passed.
LEMMA FanInAppendStep == ASSUME WatchInv, FanInAppend PROVE WatchInv'
  <1>1. /\ published \in Seq(BusEvents) /\ fanNext \in Nat \ {0} /\ watched \in Seq(StreamApps)
        /\ sentTop \in Nat /\ watchLog \in [StreamApps -> Seq(Nat)] /\ BusCap \in Nat \ {0}
        /\ Len(published) \in Nat /\ Len(watched) \in Nat
    BY StreamsAssumption DEF WatchInv, WatchTypes
  <1>2. PICK n : n = Recv(fanNext, Len(published), BusCap)
    OBVIOUS
  <1>3. n \in 1 .. Len(published) /\ sentTop = Len(watched) /\ fanNext' = n + 1
    BY <1>1, <1>2 DEF FanInAppend, Recv
  <1>4. UNCHANGED <<published, sentTop, client, got, excused>>
    BY DEF FanInAppend, clientVars
  <1>5. published[n] \in BusEvents
    BY <1>1, <1>3
  <1>6. CASE published[n].kind = "repo"
    <2>1. UNCHANGED <<watched, watchLog>>
      BY <1>2, <1>6 DEF FanInAppend
    <2>2. WatchTypes'
      BY <1>3, <1>4, <2>1 DEF WatchInv, WatchTypes
    <2>3. BuffersHoldLatest'
      BY <2>1 DEF WatchInv, BuffersHoldLatest, WindowOf, EventsAfter
    <2>4. ConnectionsFed'
      BY <1>4, <2>1 DEF WatchInv, ConnectionsFed, ConnOk, ReplayedOk, LiveOk, Covered, EventsAfter
    <2> QED BY <2>2, <2>3, <2>4 DEF WatchInv
  <1>7. CASE published[n].kind # "repo"
    <2>1. PICK b \in StreamApps : b = published[n].app
      BY <1>5, <1>7 DEF BusEvents
    <2>2. PICK t : t = AppendWatch(watchLog[b], Len(watched) + 1)
      OBVIOUS
    <2>3. watched' = Append(watched, b) /\ watchLog' = [watchLog EXCEPT ![b] = t]
      BY <1>1, <1>2, <1>7, <2>1, <2>2 DEF FanInAppend
    <2>4. PICK log \in Seq(Nat) : log = watchLog[b]
      BY <1>1
    <2>5. WindowOf(b, log)
      BY <2>4 DEF WatchInv, BuffersHoldLatest
    <2>6. t \in Seq(Nat) /\ WindowOf(b, t)'
      BY <1>1, <2>2, <2>3, <2>4, <2>5, AppendKeepsWindow
    <2>7. watched' \in Seq(StreamApps) /\ Len(watched') = Len(watched) + 1
      BY <1>1, <2>3, AppendProperties
    <2>8. WatchTypes'
      <3>1. watchLog' \in [StreamApps -> Seq(Nat)]
        BY <1>1, <2>3, <2>6
      <3>2. sentTop' <= Len(watched') /\ Len(watched') <= sentTop' + 1
        BY <1>1, <1>3, <1>4, <2>7
      <3>3. fanNext' \in Nat \ {0}
        BY <1>3
      <3> QED BY <1>4, <2>7, <3>1, <3>2, <3>3 DEF WatchInv, WatchTypes
    <2>9. \A a \in StreamApps, since \in Nat :
            /\ EventsAfter(a, since)' \subseteq EventsAfter(a, since) \cup {Len(watched) + 1}
            /\ b # a => EventsAfter(a, since)' = EventsAfter(a, since)
      BY <1>1, <2>3, EventsGrow
    <2>10. BuffersHoldLatest'
      <3> SUFFICES ASSUME NEW a \in StreamApps PROVE WindowOf(a, watchLog[a])'
        BY DEF BuffersHoldLatest
      <3>1. CASE a = b
        <4>1. watchLog'[a] = t
          BY <1>1, <2>3, <3>1
        <4> QED BY <2>6, <3>1, <4>1
      <3>2. CASE a # b
        <4>1. PICK l \in Seq(Nat) : l = watchLog[a]
          BY <1>1
        <4>2. WindowOf(a, l)
          BY <4>1 DEF WatchInv, BuffersHoldLatest
        <4>3. \A since \in Nat : EventsAfter(a, since)' = EventsAfter(a, since)
          BY <2>9, <3>2
        <4>4. EventsAfter(a, 0) \subseteq Nat
          BY DEF EventsAfter
        <4>5. WindowOf(a, l)'
          BY <4>2, <4>3, <4>4 DEF WindowOf
        <4>6. watchLog'[a] = l
          BY <1>1, <2>3, <3>2, <4>1
        <4> QED BY <4>5, <4>6
      <3> QED BY <3>1, <3>2
    <2>11. ASSUME NEW a \in StreamApps, NEW since \in Nat, NEW bound \in Nat, NEW s, NEW missed,
                  Covered(a, since, bound, s, missed), bound <= Len(watched) + 1
           PROVE  Covered(a, since, bound, s, missed)'
      <3> SUFFICES ASSUME NEW id \in EventsAfter(a, since)', id < bound
                   PROVE  Occurs(s, id) \/ id \in missed
        BY DEF Covered
      <3>1. id # Len(watched) + 1
        BY <1>1, <2>11
      <3>2. id \in EventsAfter(a, since)
        BY <2>9, <3>1
      <3> QED BY <2>11, <3>2 DEF Covered
    <2>12. ConnectionsFed'
      <3> SUFFICES ASSUME NEW c \in Clients PROVE ConnOk(client[c], got[c], excused[c])'
        BY DEF ConnectionsFed
      <3>1. PICK k \in ConnStates, g \in Seq(Nat), missed \in SUBSET Nat :
              k = client[c] /\ g = got[c] /\ missed = excused[c]
        BY DEF WatchInv, WatchTypes
      <3>2. ConnOk(k, g, missed)
        BY <3>1 DEF WatchInv, ConnectionsFed
      <3>3. /\ k.since \in Nat /\ k.top \in Nat /\ k.next \in Nat /\ k.top + 1 \in Nat
            /\ k.pc # "off" => k.app \in StreamApps
        BY <3>2 DEF ConnStates, ConnOk
      <3>4. ASSUME k.pc = "replayed" PROVE g = <<>> /\ ReplayedOk(k, missed)'
        <4>1. g = <<>> /\ ReplayedOk(k, missed) /\ k.app \in StreamApps
          BY <3>2, <3>3, <3>4 DEF ConnOk
        <4>2. k.top <= Len(watched) /\ k.top + 1 <= Len(watched) + 1 /\ k.top <= Len(watched')
          BY <1>1, <2>7, <3>3, <4>1 DEF ReplayedOk
        <4>3. Covered(k.app, k.since, k.top + 1, k.backlog, missed)'
          BY <2>11, <3>3, <4>1, <4>2 DEF ReplayedOk
        <4> QED BY <4>1, <4>2, <4>3 DEF ReplayedOk
      <3>5. ASSUME k.pc = "live" PROVE LiveOk(k, g \o k.backlog, missed)'
        <4>1. PICK s : s = g \o k.backlog
          OBVIOUS
        <4>2. LiveOk(k, s, missed) /\ k.app \in StreamApps
          BY <3>2, <3>3, <3>5, <4>1 DEF ConnOk
        <4>3. k.next <= Len(watched) + 1
          BY <1>3, <4>2 DEF LiveOk
        <4>4. Covered(k.app, k.since, k.next, s, missed)'
          BY <2>11, <3>3, <4>2, <4>3 DEF LiveOk
        <4>5. LiveOk(k, s, missed)'
          BY <1>4, <4>2, <4>4 DEF LiveOk, Ordered, NonDecreasing
        <4> QED BY <4>1, <4>5
      <3>6. ConnOk(k, g, missed)'
        BY <3>3, <3>4, <3>5 DEF ConnOk
      <3>7. client'[c] = k /\ got'[c] = g /\ excused'[c] = missed
        BY <1>4, <3>1
      <3> QED BY <3>6, <3>7
    <2> QED BY <2>8, <2>10, <2>12 DEF WatchInv
  <1> QED BY <1>6, <1>7

LEMMA FanInSendStep == ASSUME WatchInv, FanInSend PROVE WatchInv'
  <1>1. /\ UNCHANGED <<published, fanNext, watched, watchLog, client, got, excused>>
        /\ sentTop' = sentTop + 1 /\ sentTop < Len(watched)
    BY DEF FanInSend, clientVars
  <1>2. sentTop \in Nat /\ Len(watched) \in Nat
    BY DEF WatchInv, WatchTypes
  <1>3. WatchTypes'
    BY <1>1, <1>2 DEF WatchInv, WatchTypes
  <1>4. BuffersHoldLatest'
    BY <1>1 DEF WatchInv, BuffersHoldLatest, WindowOf, EventsAfter
  <1>5. ConnectionsFed'
    <2> SUFFICES ASSUME NEW c \in Clients PROVE ConnOk(client[c], got[c], excused[c])'
      BY DEF ConnectionsFed
    <2>1. PICK k \in ConnStates, g \in Seq(Nat), missed \in SUBSET Nat :
            k = client[c] /\ g = got[c] /\ missed = excused[c]
      BY DEF WatchInv, WatchTypes
    <2>2. ConnOk(k, g, missed)
      BY <2>1 DEF WatchInv, ConnectionsFed
    <2>3. k.next \in Nat
      BY DEF ConnStates
    <2>4. k.next <= sentTop + 1 => k.next <= sentTop' + 1
      BY <1>1, <1>2, <2>3
    <2>5. \A a, since, bound, s : Covered(a, since, bound, s, missed) => Covered(a, since, bound, s, missed)'
      BY <1>1 DEF Covered, EventsAfter
    <2>6. ReplayedOk(k, missed) => ReplayedOk(k, missed)'
      BY <1>1, <2>5 DEF ReplayedOk
    <2>7. LiveOk(k, g \o k.backlog, missed) => LiveOk(k, g \o k.backlog, missed)'
      BY <2>4, <2>5 DEF LiveOk
    <2>8. ConnOk(k, g, missed)'
      BY <2>2, <2>6, <2>7 DEF ConnOk
    <2>9. client'[c] = k /\ got'[c] = g /\ excused'[c] = missed
      BY <1>1, <2>1
    <2> QED BY <2>8, <2>9
  <1> QED BY <1>3, <1>4, <1>5 DEF WatchInv

LEMMA WatchStarts ==
  ASSUME published = <<>>, fanNext = 1, watched = <<>>, sentTop = 0,
         watchLog = [a \in StreamApps |-> <<>>], client \in [Clients -> ConnStates],
         \A c \in Clients : client[c].pc = "off",
         got = [c \in Clients |-> <<>>], excused = [c \in Clients |-> {}]
  PROVE  WatchInv
  <1>1. WatchTypes
    BY DEF WatchTypes
  <1>2. BuffersHoldLatest
    <2>1. \A a, since : EventsAfter(a, since) = {}
      BY DEF EventsAfter
    <2>2. \A a \in StreamApps : watchLog[a] = <<>>
      OBVIOUS
    <2>3. \A a \in StreamApps : WindowOf(a, <<>>)
      BY <2>1, StreamsAssumption DEF WindowOf, Ascends
    <2> QED BY <2>2, <2>3 DEF BuffersHoldLatest
  <1>3. ConnectionsFed
    BY DEF ConnectionsFed, ConnOk
  <1> QED BY <1>1, <1>2, <1>3 DEF WatchInv

LEMMA WatchRestarts == ASSUME WatchInv, StreamsRestart PROVE WatchInv'
  <1>1. /\ published' = <<>> /\ fanNext' = 1 /\ watched' = <<>> /\ sentTop' = 0
        /\ watchLog' = [a \in StreamApps |-> <<>>]
        /\ got' = [c \in Clients |-> <<>>] /\ excused' = [c \in Clients |-> {}]
    BY DEF StreamsRestart
  <1>2. /\ client' \in [Clients -> ConnStates]
        /\ \A c \in Clients : client'[c].pc = "off"
    <2>1. WatchTypes
      BY DEF WatchInv
    <2>2. client' = [c \in Clients |-> [Offline EXCEPT !.since = LastSeen(c)]]
      BY DEF StreamsRestart
    <2> QED BY <2>1, <2>2, LastSeenTyped
  <1>3. WatchTypes'
    BY <1>1, <1>2 DEF WatchTypes
  <1>4. BuffersHoldLatest'
    <2>1. \A a, since : EventsAfter(a, since)' = {}
      BY <1>1 DEF EventsAfter
    <2>2. \A a \in StreamApps : watchLog'[a] = <<>>
      BY <1>1
    <2>3. \A a \in StreamApps : WindowOf(a, <<>>)'
      BY <2>1, StreamsAssumption DEF WindowOf, Ascends
    <2> QED BY <2>2, <2>3 DEF BuffersHoldLatest
  <1>5. ConnectionsFed'
    BY <1>2 DEF ConnectionsFed, ConnOk
  <1> QED BY <1>3, <1>4, <1>5 DEF WatchInv

LEMMA WatchStep == WatchInv /\ [StreamsNext]_streamVars => WatchInv'
  <1> SUFFICES ASSUME WatchInv, [StreamsNext]_streamVars PROVE WatchInv'
    OBVIOUS
  <1>1. ASSUME UNCHANGED <<watcherVars, clientVars>>, published' \in Seq(BusEvents)
        PROVE  WatchInv'
    <2>1. UNCHANGED <<fanNext, watched, sentTop, watchLog, client, got, excused>>
      BY <1>1 DEF watcherVars, clientVars
    <2>2. WatchTypes'
      BY <1>1, <2>1 DEF WatchInv, WatchTypes
    <2>3. BuffersHoldLatest'
      BY <2>1 DEF WatchInv, BuffersHoldLatest, WindowOf, EventsAfter
    <2>4. ConnectionsFed'
      BY <2>1 DEF WatchInv, ConnectionsFed, ConnOk, ReplayedOk, LiveOk, Covered, EventsAfter
    <2> QED BY <2>2, <2>3, <2>4 DEF WatchInv
  <1>2. published \in Seq(BusEvents)
    BY DEF WatchInv, WatchTypes
  <1>3. ASSUME NEW e \in BusEvents, EventPublish(e) PROVE WatchInv'
    <2>1. published' \in Seq(BusEvents)
      BY <1>2, <1>3, AppendProperties DEF EventPublish
    <2> QED BY <1>1, <1>3, <2>1 DEF EventPublish
  <1>4. CASE UNCHANGED streamVars
    BY <1>1, <1>2, <1>4 DEF streamVars, watcherVars, clientVars
  <1>5. CASE NotifierTake
    BY <1>1, <1>2, <1>5 DEF NotifierTake
  <1>6. ASSUME NEW reached \in BOOLEAN, NEW answer, NotifierPost(reached, answer) PROVE WatchInv'
    BY <1>1, <1>2, <1>6 DEF NotifierPost
  <1>7. ASSUME NEW c \in Clients,
               \/ \E a \in StreamApps : WatchOpen(c, a)
               \/ WatchSubscribe(c) \/ WatchBacklog(c) \/ WatchRecv(c) \/ WatchDrop(c)
        PROVE  WatchInv'
    BY <1>7, WatchOpenStep, WatchSubscribeStep, WatchBacklogStep, WatchRecvStep, WatchDropStep
  <1> QED BY <1>3, <1>4, <1>5, <1>6, <1>7, FanInAppendStep, FanInSendStep, WatchRestarts
          DEF StreamsNext

\* AppWatcher and watch_app: the inductive invariant holds for any number of apps, clients,
\* events, reconnections and restarts, and any capacities.
THEOREM WatchInvariant == StreamsSpec => []WatchInv
  <1>1. StreamsInit => WatchInv
    <2> SUFFICES ASSUME StreamsInit PROVE WatchInv
      OBVIOUS
    <2>1. Offline \in ConnStates /\ Offline.pc = "off"
      BY DEF Offline, ConnStates
    <2>2. client \in [Clients -> ConnStates] /\ \A c \in Clients : client[c].pc = "off"
      BY <2>1 DEF StreamsInit
    <2> QED BY <2>2, WatchStarts DEF StreamsInit
  <1> QED BY <1>1, WatchStep, PTL DEF StreamsSpec

\* A connected client gets its app's events in order, none twice but the one that was being
\* sent while it replayed, and none missing but for the three reasons the code has.
THEOREM WatchedWithoutGaps == StreamsSpec => []WatchGapless
  <1>1. WatchInv => WatchGapless
    BY DEF WatchInv, ConnectionsFed, ConnOk, LiveOk, Ordered, Covered, Occurs, WatchGapless
  <1> QED BY <1>1, WatchInvariant, PTL
=============================================================================
