-------------------------- MODULE ReadThroughProofs --------------------------
(* What an answer may show, proved for any callers, items, expiries and      *)
(* delays: it is about what was asked, and bounded in age and in how far it  *)
(* goes back; and when Schwab is asked again.                                *)
EXTENDS ReadThrough, TLAPS

Keys   == {Key(i) : i \in Item}
Abouts == {None} \cup {Asked(i) : i \in Item}
States == {"idle", "get", "call", "set", "done", "failed"}

Types ==
    /\ clock \in Nat
    /\ cache \in [Keys -> Snap \cup {None}]
    /\ until \in [Keys -> Nat]
    /\ newest \in [Keys -> Nat \cup {None}]
    /\ pc \in [Caller -> States]
    /\ ask \in [Caller -> Ask \cup {<<>>}]
    /\ out \in [Caller -> Seq(Snap)]
    /\ made \in [Caller -> Snap \cup {None}]
    /\ began \in [Caller -> Nat]

\* A snapshot is about the item, read neither in the future nor long ago.
Young(snap, item) ==
    /\ snap \in Snap
    /\ snap.of \in {None, Asked(item)}
    /\ snap.asof <= clock

\* A request that is not over has an item to answer.
Busy(c) ==
    pc[c] \in {"get", "call", "set"} => ask[c] \in Ask /\ Len(out[c]) < Len(ask[c])

Over(c) ==
    /\ Len(out[c]) <= Len(ask[c])
    /\ pc[c] = "done" => Len(out[c]) = Len(ask[c])

\* A snapshot on its way to Redis.
Pending(c) ==
    pc[c] = "set" => Young(made[c], Current(c)) /\ clock <= made[c].asof + MaxDelay

\* A snapshot in Redis.
Cached(k) ==
    cache[k] # None =>
        /\ Young(cache[k], k)
        /\ clock < until[k]
        /\ until[k] <= cache[k].asof + MaxDelay + Ttl[k.kind]
        /\ newest[k] # None => cache[k].asof + MaxDelay >= newest[k]

Read(k) == newest[k] # None => newest[k] <= clock

\* Item i of an answer.
Answered(c, i) ==
    /\ out[c][i].of \in {None, Asked(ask[c][i])}
    /\ out[c][i].asof + Ttl[ask[c][i].kind] + MaxDelay >= began[c]

CallerInv(c) ==
    /\ Busy(c) /\ Over(c) /\ Pending(c)
    /\ began[c] <= clock
    /\ \A i \in 1..Len(out[c]) : Answered(c, i)

KeyInv(k) == Cached(k) /\ Read(k)

IInv == Types /\ (\A c \in Caller : CallerInv(c)) /\ (\A k \in Keys : KeyInv(k))

ItemType == [kind : Kinds, name : Symbol, form : Forms, exp : Date \cup {None},
             from : Date \cup {None}, to : Date \cup {None}, rest : Rest]

LEMMA Assumptions ==
    /\ Item \subseteq ItemType
    /\ Ask \subseteq Seq(Item)
    /\ <<>> \notin Ask
    /\ Ttl \in [Kinds -> Nat \ {0}]
    /\ MaxDelay \in Nat /\ MaxTime \in Nat
    /\ None \notin Nat /\ None \notin Snap
BY ReadAssumption DEF ReadAssumption, ItemType

\* A key is of the kind of its item, and about the same.
LEMMA KeyFacts ==
    ASSUME NEW i \in Item
    PROVE  /\ Key(i) \in Keys
           /\ Key(i).kind = i.kind
           /\ i.kind \in Kinds
           /\ Asked(Key(i)) = Asked(i)
           /\ Asked(i) \in Abouts
           /\ Canonical(i) \in Forms
<1>1. i \in ItemType
  BY Assumptions
<1>2. /\ Key(i).kind = i.kind /\ Key(i).name = i.name /\ Key(i).exp = i.exp
      /\ Key(i).from = i.from /\ Key(i).to = i.to /\ Key(i).rest = i.rest
  BY <1>1 DEF Key, ItemType
<1>3. Asked(Key(i)) = Asked(i)
  BY <1>2 DEF Asked
<1>4. Canonical(i) \in Forms
  BY <1>1 DEF Canonical, ItemType, Forms
<1>5. QED
  BY <1>1, <1>2, <1>3, <1>4 DEF Keys, Abouts, ItemType

LEMMA TtlFacts ==
    ASSUME NEW kind \in Kinds
    PROVE  Ttl[kind] \in Nat
BY Assumptions

\* A request that is not over asks for an item now.
LEMMA CurrentFacts ==
    ASSUME Types, NEW c \in Caller, CallerInv(c), pc[c] \in {"get", "call", "set"}
    PROVE  /\ Current(c) \in Item
           /\ CurrentKey(c) \in Keys
           /\ Len(out[c]) + 1 \in 1..Len(ask[c])
<1>1. ask[c] \in Seq(Item) /\ Len(out[c]) < Len(ask[c])
  BY Assumptions DEF CallerInv, Busy
<1>2. Len(out[c]) + 1 \in 1..Len(ask[c])
  BY <1>1 DEF Types
<1>3. Current(c) \in Item
  BY <1>1, <1>2 DEF Current
<1>4. QED
  BY <1>2, <1>3, KeyFacts DEF CurrentKey

LEMMA InitIInv == Init => IInv
<1> SUFFICES ASSUME Init PROVE IInv
  OBVIOUS
<1>1. Types
  BY DEF Init, Types, Keys, States
<1>2. ASSUME NEW c \in Caller PROVE CallerInv(c)
  BY DEF Init, CallerInv, Busy, Over, Pending
<1>3. ASSUME NEW k \in Keys PROVE KeyInv(k)
  BY DEF Init, KeyInv, Cached, Read, Keys
<1>4. QED
  BY <1>1, <1>2, <1>3 DEF IInv

\* A caller that stands still at the same time keeps its part.
LEMMA Resting ==
    ASSUME NEW d \in Caller, CallerInv(d), clock' = clock, pc'[d] = pc[d],
           ask'[d] = ask[d], out'[d] = out[d], made'[d] = made[d], began'[d] = began[d]
    PROVE  CallerInv(d)'
<1>1. Busy(d)' /\ Over(d)'
  BY DEF CallerInv, Busy, Over
<1>2. Pending(d)'
  BY DEF CallerInv, Pending, Young, Current
<1>3. (\A i \in 1..Len(out'[d]) : Answered(d, i)') /\ began'[d] <= clock'
  BY DEF CallerInv, Answered
<1>4. QED
  BY <1>1, <1>2, <1>3 DEF CallerInv

LEMMA SameKeys ==
    ASSUME \A k \in Keys : KeyInv(k), UNCHANGED <<clock, cache, until, newest>>
    PROVE  \A k \in Keys : KeyInv(k)'
BY DEF KeyInv, Cached, Read, Young

\* Appending a snapshot of the item, not older than TTL and delay.
LEMMA Appended ==
    ASSUME IInv, NEW c \in Caller, pc[c] \in {"get", "set"}, NEW snap,
           Young(snap, Current(c)),
           clock <= snap.asof + MaxDelay + Ttl[Current(c).kind],
           Append1(c, snap),
           made' = made \/ made' = [made EXCEPT ![c] = None]
    PROVE  /\ pc' \in [Caller -> States] /\ out' \in [Caller -> Seq(Snap)]
           /\ newest' \in [Keys -> Nat \cup {None}]
           /\ \A d \in Caller : CallerInv(d)'
<1> DEFINE i == Current(c)
           n == Len(out[c])
<1>1. Types /\ CallerInv(c)
  BY DEF IInv
<1>2. /\ i \in Item /\ CurrentKey(c) \in Keys
      /\ n + 1 \in 1..Len(ask[c]) /\ Len(ask[c]) \in Nat
      /\ i = ask[c][n + 1]
  BY <1>1, CurrentFacts, Assumptions DEF Current, CallerInv, Busy, Types
<1>3. /\ Asked(i) \in Abouts /\ i.kind \in Kinds /\ Ttl[i.kind] \in Nat
  BY <1>2, KeyFacts, TtlFacts
<1>4. /\ snap.of \in Abouts /\ snap.form \in Forms /\ snap.asof \in Nat /\ snap.asof <= clock
      /\ snap.of \in {None, Asked(i)}
      /\ clock \in Nat /\ MaxDelay \in Nat
  BY <1>1, Assumptions DEF Young, Snap, Abouts, Types
<1>5. /\ snap \in Snap
      /\ began[c] \in Nat /\ began[c] <= clock
      /\ snap.asof + Ttl[i.kind] + MaxDelay >= began[c]
  BY <1>1, <1>3, <1>4 DEF Young, CallerInv, Types
<1>6. /\ out' = [out EXCEPT ![c] = Append(@, snap)]
      /\ pc' = [pc EXCEPT ![c] = AfterItem(c)]
      /\ ask' = ask /\ clock' = clock /\ began' = began
      /\ newest' = [newest EXCEPT ![CurrentKey(c)] = Later(snap.asof, @)]
  BY DEF Append1
<1>7. AfterItem(c) \in {"done", "get"}
  BY DEF AfterItem
<1>8. /\ out'[c] \in Seq(Snap) /\ n \in Nat /\ Len(out'[c]) = n + 1
      /\ out'[c][n + 1] = snap
      /\ \A j \in 1..n : out'[c][j] = out[c][j]
  BY <1>1, <1>5, <1>6 DEF Types
<1>9. out' \in [Caller -> Seq(Snap)] /\ pc' \in [Caller -> States]
  BY <1>1, <1>6, <1>7, <1>8 DEF Types, States
<1>10. newest' \in [Keys -> Nat \cup {None}]
  BY <1>1, <1>2, <1>4, <1>6 DEF Types, Later
<1>11. CallerInv(c)'
  <2>1. pc'[c] = AfterItem(c)
    BY <1>1, <1>6 DEF Types
  <2>2. Busy(c)' /\ Over(c)'
    BY <2>1, <1>2, <1>6, <1>7, <1>8, <1>1 DEF Busy, Over, AfterItem, CallerInv
  <2>3. Pending(c)'
    BY <2>1, <1>7 DEF Pending
  <2>4. ASSUME NEW j \in 1..Len(out'[c]) PROVE Answered(c, j)'
    <3>1. CASE j = n + 1
      BY <3>1, <1>2, <1>4, <1>5, <1>6, <1>8 DEF Answered
    <3>2. CASE j \in 1..n
      <4>1. Answered(c, j)
        BY <3>2, <1>1 DEF CallerInv
      <4>2. QED
        BY <3>2, <4>1, <1>6, <1>8 DEF Answered
    <3>3. QED
      BY <3>1, <3>2, <1>8
  <2>5. began'[c] <= clock'
    BY <1>5, <1>6
  <2>6. QED
    BY <2>2, <2>3, <2>4, <2>5 DEF CallerInv
<1>12. ASSUME NEW d \in Caller, d # c PROVE CallerInv(d)'
  <2>1. pc'[d] = pc[d] /\ out'[d] = out[d] /\ made'[d] = made[d] /\ ask'[d] = ask[d] /\ began'[d] = began[d]
    BY <1>12, <1>1, <1>6 DEF Types
  <2>2. CallerInv(d)
    BY DEF IInv
  <2>3. QED
    BY <2>1, <2>2, <1>6, Resting
<1>13. QED
  BY <1>9, <1>10, <1>11, <1>12

LEMMA HitKeeps ==
    ASSUME IInv, NEW c \in Caller, Hit(c)
    PROVE  IInv'
<1> DEFINE k == CurrentKey(c)
<1>1. Types /\ CallerInv(c) /\ pc[c] = "get" /\ cache[k] # None /\ Append1(c, cache[k])
      /\ UNCHANGED <<cache, until, made, clock, ask, began>>
  BY DEF IInv, Hit, Append1
<1>2. /\ Current(c) \in Item /\ k \in Keys /\ k.kind = Current(c).kind
      /\ Asked(k) = Asked(Current(c))
      /\ Ttl[k.kind] \in Nat
  BY <1>1, CurrentFacts, KeyFacts, TtlFacts DEF CurrentKey
<1>3. KeyInv(k)
  BY <1>2 DEF IInv
<1>4. /\ Young(cache[k], Current(c))
      /\ clock <= cache[k].asof + MaxDelay + Ttl[Current(c).kind]
  <2>1. Young(cache[k], k) /\ clock < until[k] /\ until[k] <= cache[k].asof + MaxDelay + Ttl[k.kind]
    BY <1>1, <1>3 DEF KeyInv, Cached
  <2>2. clock \in Nat /\ until[k] \in Nat /\ cache[k].asof \in Nat /\ MaxDelay \in Nat
    BY <2>1, <1>1, <1>2, Assumptions DEF Types, Young, Snap
  <2>3. QED
    BY <2>1, <2>2, <1>2 DEF Young
<1>5. /\ pc' \in [Caller -> States] /\ out' \in [Caller -> Seq(Snap)]
      /\ newest' \in [Keys -> Nat \cup {None}]
      /\ \A d \in Caller : CallerInv(d)'
  BY <1>1, <1>4, Appended
<1>6. Types'
  BY <1>1, <1>5 DEF Types
<1>7. ASSUME NEW j \in Keys PROVE KeyInv(j)'
  <2>1. KeyInv(j)
    BY DEF IInv
  <2>2. /\ newest' = [newest EXCEPT ![k] = Later(cache[k].asof, @)]
        /\ newest \in [Keys -> Nat \cup {None}]
        /\ UNCHANGED <<cache, until, clock>>
    BY <1>1 DEF Append1, Types
  <2>3. CASE j # k
    BY <2>1, <2>2, <2>3 DEF KeyInv, Cached, Read, Young
  <2>4. CASE j = k
    <3>1. newest'[k] = Later(cache[k].asof, newest[k])
      BY <2>2, <1>2
    <3>2. cache[k].asof \in Nat /\ MaxDelay \in Nat /\ cache[k].asof <= clock
      BY <1>4, Assumptions DEF Young, Snap
    <3>3. newest'[k] = cache[k].asof \/ (newest[k] # None /\ newest'[k] = newest[k])
      BY <3>1 DEF Later
    <3>4. newest'[k] # None => cache[k].asof + MaxDelay >= newest'[k] /\ newest'[k] <= clock
      BY <3>2, <3>3, <1>1, <1>3 DEF KeyInv, Cached, Read
    <3>5. QED
      BY <2>1, <2>2, <2>4, <3>4 DEF KeyInv, Cached, Read, Young
  <2>5. QED
    BY <2>3, <2>4
<1>8. QED
  BY <1>5, <1>6, <1>7 DEF IInv

LEMMA RequestKeeps ==
    ASSUME IInv, NEW c \in Caller, NEW list \in Ask, Request(c, list)
    PROVE  IInv'
<1>1. Types /\ UNCHANGED <<clock, cache, until, made, newest>>
  BY DEF IInv, Request
<1>2. list \in Seq(Item) /\ list # <<>>
  BY Assumptions
<1>3. Len(list) \in Nat /\ 0 < Len(list)
  BY <1>2
<1>4. Types'
  BY <1>1 DEF Types, Request, States
<1>5. /\ pc'[c] = "get" /\ ask'[c] = list /\ out'[c] = <<>> /\ began'[c] = clock /\ clock \in Nat
      /\ \A d \in Caller : d # c => /\ pc'[d] = pc[d] /\ ask'[d] = ask[d] /\ out'[d] = out[d]
                                   /\ began'[d] = began[d]
  BY <1>1 DEF Types, Request
<1>6. CallerInv(c)'
  BY <1>1, <1>3, <1>5 DEF CallerInv, Busy, Over, Pending
<1>7. ASSUME NEW d \in Caller, d # c PROVE CallerInv(d)'
  <2>1. CallerInv(d)
    BY DEF IInv
  <2>2. QED
    BY <2>1, <1>1, <1>5, <1>7, Resting
<1>8. \A k \in Keys : KeyInv(k)'
  BY <1>1, SameKeys DEF IInv
<1>9. QED
  BY <1>4, <1>6, <1>7, <1>8 DEF IInv

LEMMA MissKeeps ==
    ASSUME IInv, NEW c \in Caller, Miss(c)
    PROVE  IInv'
<1>1. Types /\ UNCHANGED <<clock, cache, until, ask, out, made, began, newest>>
  BY DEF IInv, Miss
<1>2. Types'
  BY <1>1 DEF Types, Miss, States
<1>3. /\ pc[c] = "get" /\ pc'[c] = "call"
      /\ \A d \in Caller : d # c => pc'[d] = pc[d]
  BY <1>1 DEF Types, Miss
<1>4. CallerInv(c)
  BY DEF IInv
<1>5. CallerInv(c)'
  BY <1>1, <1>3, <1>4 DEF CallerInv, Busy, Over, Pending, Answered
<1>6. ASSUME NEW d \in Caller, d # c PROVE CallerInv(d)'
  <2>1. CallerInv(d)
    BY DEF IInv
  <2>2. QED
    BY <2>1, <1>1, <1>3, <1>6, Resting
<1>7. \A k \in Keys : KeyInv(k)'
  BY <1>1, SameKeys DEF IInv
<1>8. QED
  BY <1>2, <1>5, <1>6, <1>7 DEF IInv

LEMMA QuotedKeeps ==
    ASSUME IInv, NEW c \in Caller, NEW known \in BOOLEAN, Quoted(c, known)
    PROVE  IInv'
<1> DEFINE snap == Snapshot(Current(c), known)
<1>1. /\ Types /\ CallerInv(c) /\ pc[c] = "call"
      /\ UNCHANGED <<clock, cache, until, ask, out, began, newest>>
  BY DEF IInv, Quoted
<1>2. Current(c) \in Item
  BY <1>1, CurrentFacts
<1>3. /\ Asked(Current(c)) \in Abouts /\ Canonical(Current(c)) \in Forms
      /\ clock \in Nat /\ MaxDelay \in Nat
  BY <1>1, <1>2, KeyFacts, Assumptions DEF Types
<1>4. /\ snap \in Snap /\ snap.of \in {None, Asked(Current(c))} /\ snap.asof = clock
  BY <1>3 DEF Snapshot, Snap, Abouts
<1> HIDE DEF snap
<1>5. /\ made' = [made EXCEPT ![c] = snap]
      /\ pc' = [pc EXCEPT ![c] = "set"]
  BY DEF Quoted, snap
<1>6. Types'
  BY <1>1, <1>4, <1>5 DEF Types, States
<1>7. /\ made'[c] = snap /\ pc'[c] = "set" /\ out'[c] = out[c] /\ ask'[c] = ask[c]
      /\ \A d \in Caller : d # c => pc'[d] = pc[d] /\ made'[d] = made[d]
  BY <1>1, <1>5 DEF Types
<1>8. CallerInv(c)'
  <2>1. Busy(c)' /\ Over(c)'
    BY <1>1, <1>7 DEF CallerInv, Busy, Over
  <2>2. Pending(c)'
    BY <1>1, <1>3, <1>4, <1>7 DEF Pending, Young, Current
  <2>3. (\A i \in 1..Len(out'[c]) : Answered(c, i)') /\ began'[c] <= clock'
    BY <1>1, <1>7 DEF CallerInv, Answered
  <2>4. QED
    BY <2>1, <2>2, <2>3 DEF CallerInv
<1>9. ASSUME NEW d \in Caller, d # c PROVE CallerInv(d)'
  <2>1. CallerInv(d)
    BY DEF IInv
  <2>2. QED
    BY <2>1, <1>1, <1>7, <1>9, Resting
<1>10. \A k \in Keys : KeyInv(k)'
  BY <1>1, SameKeys DEF IInv
<1>11. QED
  BY <1>6, <1>8, <1>9, <1>10 DEF IInv

\* After the SET of a pending snapshot the key holds it, for the TTL.
LEMMA SetFacts ==
    ASSUME IInv, NEW c \in Caller, pc[c] = "set", Set(c), clock' = clock,
           newest' = newest \/ newest' = [newest EXCEPT ![CurrentKey(c)] = Later(made[c].asof, @)]
    PROVE  /\ cache' \in [Keys -> Snap \cup {None}]
           /\ until' \in [Keys -> Nat]
           /\ \A j \in Keys : KeyInv(j)'
<1> DEFINE k == CurrentKey(c)
           snap == made[c]
<1>1. Types /\ CallerInv(c)
  BY DEF IInv
<1>2. /\ Current(c) \in Item /\ k \in Keys /\ k.kind = Current(c).kind
      /\ Asked(k) = Asked(Current(c)) /\ k.kind \in Kinds
  BY <1>1, CurrentFacts, KeyFacts DEF CurrentKey
<1>3. Ttl[k.kind] \in Nat \ {0}
  BY <1>2, Assumptions
<1>4. Young(snap, k) /\ clock <= snap.asof + MaxDelay
  BY <1>1, <1>2 DEF CallerInv, Pending, Young
<1>5. /\ snap \in Snap /\ snap.asof \in Nat /\ snap.asof <= clock /\ clock \in Nat /\ MaxDelay \in Nat
      /\ snap # None
  BY <1>1, <1>4, Assumptions DEF Young, Snap, Types
<1>6. /\ cache' = [cache EXCEPT ![k] = snap]
      /\ until' = [until EXCEPT ![k] = clock + Ttl[k.kind]]
  BY <1>2 DEF Set, Replaced, Expiry
<1>7. cache' \in [Keys -> Snap \cup {None}] /\ until' \in [Keys -> Nat]
  <2>1. clock + Ttl[k.kind] \in Nat
    BY <1>3, <1>5
  <2>2. cache \in [Keys -> Snap \cup {None}] /\ until \in [Keys -> Nat]
    BY <1>1 DEF Types
  <2>3. QED
    BY <2>1, <2>2, <1>5, <1>6
<1>8. ASSUME NEW j \in Keys PROVE KeyInv(j)'
  <2>1. KeyInv(j)
    BY DEF IInv
  <2>2. CASE j # k
    <3>1. cache'[j] = cache[j] /\ until'[j] = until[j] /\ newest'[j] = newest[j]
      BY <1>1, <1>6, <2>2 DEF Types
    <3>2. QED
      BY <2>1, <3>1 DEF KeyInv, Cached, Read, Young
  <2>3. CASE j = k
    <3>1. cache'[j] = snap /\ until'[j] = clock + Ttl[j.kind]
      BY <1>1, <1>2, <1>6, <2>3 DEF Types
    <3>2. newest'[j] = newest[j] \/ newest'[j] = snap.asof
      BY <1>1, <1>2, <2>3 DEF Types, Later
    <3>3. newest[j] # None => newest[j] <= clock /\ newest[j] \in Nat
      BY <2>1, <1>1 DEF KeyInv, Read, Types
    <3>4. newest'[j] # None => newest'[j] <= clock /\ snap.asof + MaxDelay >= newest'[j]
      <4>1. CASE newest'[j] = newest[j]
        BY <4>1, <3>3, <1>4, <1>5
      <4>2. CASE newest'[j] = snap.asof
        BY <4>2, <1>5
      <4>3. QED
        BY <3>2, <4>1, <4>2
    <3>5. /\ cache'[j] \in Snap /\ cache'[j].of \in {None, Asked(j)}
          /\ cache'[j].asof <= clock /\ cache'[j].asof = snap.asof
      BY <3>1, <1>4, <2>3 DEF Young
    <3>6. Ttl[j.kind] \in Nat \ {0}
      BY <1>3, <2>3
    <3>7. /\ clock < until'[j]
          /\ until'[j] <= cache'[j].asof + MaxDelay + Ttl[j.kind]
      BY <3>1, <3>5, <3>6, <1>4, <1>5
    <3>8. Cached(j)'
      BY <3>4, <3>5, <3>7 DEF Cached, Young
    <3>9. QED
      BY <3>4, <3>8 DEF KeyInv, Read
  <2>4. QED
    BY <2>2, <2>3
<1>9. QED
  BY <1>7, <1>8

LEMMA StoredKeeps ==
    ASSUME IInv, NEW c \in Caller, Stored(c)
    PROVE  IInv'
<1>1. /\ Types /\ CallerInv(c) /\ pc[c] = "set" /\ Set(c) /\ Append1(c, made[c])
      /\ made' = [made EXCEPT ![c] = None] /\ clock' = clock /\ ask' = ask /\ began' = began
  BY DEF IInv, Stored, Append1
<1>2. newest' = [newest EXCEPT ![CurrentKey(c)] = Later(made[c].asof, @)]
  BY <1>1 DEF Append1
<1>3. /\ cache' \in [Keys -> Snap \cup {None}] /\ until' \in [Keys -> Nat]
      /\ \A j \in Keys : KeyInv(j)'
  BY <1>1, <1>2, SetFacts
<1>4. Young(made[c], Current(c)) /\ clock <= made[c].asof + MaxDelay
  BY <1>1 DEF CallerInv, Pending
<1>5. Ttl[Current(c).kind] \in Nat
  BY <1>1, CurrentFacts, KeyFacts, TtlFacts
<1>6. clock \in Nat /\ made[c].asof \in Nat /\ MaxDelay \in Nat
  BY <1>1, <1>4, Assumptions DEF Types, Young, Snap
<1>7. clock <= made[c].asof + MaxDelay + Ttl[Current(c).kind]
  BY <1>4, <1>5, <1>6
<1>8. /\ pc' \in [Caller -> States] /\ out' \in [Caller -> Seq(Snap)]
      /\ newest' \in [Keys -> Nat \cup {None}]
      /\ \A d \in Caller : CallerInv(d)'
  BY <1>1, <1>4, <1>7, Appended
<1>9. Types'
  BY <1>1, <1>3, <1>8 DEF Types
<1>10. QED
  BY <1>3, <1>8, <1>9 DEF IInv

LEMMA FailKeeps ==
    ASSUME IInv, NEW c \in Caller, Fail(c)
    PROVE  IInv'
<1>1. /\ Types
      /\ pc' = [pc EXCEPT ![c] = "failed"] /\ out' = [out EXCEPT ![c] = <<>>]
      /\ made' = [made EXCEPT ![c] = None]
      /\ clock' = clock /\ ask' = ask /\ newest' = newest /\ began' = began
  BY DEF IInv, Fail, AfterError
<1>2. /\ cache' \in [Keys -> Snap \cup {None}] /\ until' \in [Keys -> Nat]
      /\ \A j \in Keys : KeyInv(j)'
  <2>1. CASE UNCHANGED <<cache, until>>
    BY <2>1, <1>1, SameKeys DEF IInv, Types
  <2>2. CASE pc[c] = "set" /\ Set(c)
    BY <2>2, <1>1, SetFacts
  <2>3. QED
    BY <2>1, <2>2 DEF Fail
<1>3. Types'
  BY <1>1, <1>2 DEF Types, States
<1>4. /\ pc'[c] = "failed" /\ out'[c] = <<>>
      /\ \A d \in Caller : d # c => pc'[d] = pc[d] /\ made'[d] = made[d] /\ out'[d] = out[d]
  BY <1>1 DEF Types
<1>5. ask[c] \in Seq(Item)
  <2>1. <<>> \in Seq(Item)
    OBVIOUS
  <2>2. QED
    BY <2>1, <1>1, Assumptions DEF Types
<1>6. CallerInv(c)'
  <2>1. CallerInv(c)
    BY DEF IInv
  <2>2. QED
    BY <2>1, <1>1, <1>4, <1>5 DEF CallerInv, Busy, Over, Pending
<1>7. ASSUME NEW d \in Caller, d # c PROVE CallerInv(d)'
  <2>1. CallerInv(d)
    BY DEF IInv
  <2>2. QED
    BY <2>1, <1>1, <1>4, <1>7, Resting
<1>8. QED
  BY <1>2, <1>3, <1>6, <1>7 DEF IInv

LEMMA TickKeeps ==
    ASSUME IInv, Tick
    PROVE  IInv'
<1>1. /\ Types /\ clock \in Nat /\ MaxDelay \in Nat
      /\ clock' = clock + 1
      /\ UNCHANGED <<pc, ask, out, made, began, newest>>
      /\ DOMAIN cache = Keys
  BY Assumptions DEF IInv, Types, Tick
<1>2. /\ cache' = [k \in Keys |-> IF Ends(k) THEN None ELSE cache[k]]
      /\ until' = [k \in Keys |-> IF Ends(k) THEN 0 ELSE until[k]]
  BY <1>1 DEF Tick
<1>3. Types'
  BY <1>1, <1>2 DEF Types
<1>4. ASSUME NEW c \in Caller PROVE CallerInv(c)'
  <2>1. CallerInv(c)
    BY DEF IInv
  <2>2. /\ Busy(c)' /\ Over(c)' /\ \A i \in 1..Len(out'[c]) : Answered(c, i)'
        /\ began'[c] <= clock'
    BY <2>1, <1>1 DEF CallerInv, Busy, Over, Answered, Types
  <2>3. Pending(c)'
    <3>1. CASE pc[c] = "set"
      <4>1. Young(made[c], Current(c)) /\ clock < made[c].asof + MaxDelay
        BY <3>1, <2>1 DEF CallerInv, Pending, Tick
      <4>2. made[c].asof \in Nat
        BY <4>1 DEF Young, Snap
      <4>3. QED
        BY <4>1, <4>2, <1>1 DEF Pending, Young, Current
    <3>2. CASE pc[c] # "set"
      BY <3>2, <1>1 DEF Pending
    <3>3. QED
      BY <3>1, <3>2
  <2>4. QED
    BY <2>2, <2>3 DEF CallerInv
<1>5. ASSUME NEW k \in Keys PROVE KeyInv(k)'
  <2>1. KeyInv(k) /\ until[k] \in Nat /\ newest[k] \in Nat \cup {None}
    BY <1>1 DEF IInv, Types
  <2>2. Read(k)'
    BY <2>1, <1>1 DEF KeyInv, Read
  <2>3. CASE cache'[k] = None
    BY <2>2, <2>3 DEF KeyInv, Cached
  <2>4. CASE cache'[k] # None
    <3>1. ~Ends(k) /\ cache'[k] = cache[k] /\ until'[k] = until[k]
      BY <2>4, <1>2
    <3>2. clock + 1 < until[k]
      BY <3>1, <2>1, <1>1 DEF Ends
    <3>3. cache[k] # None /\ Young(cache[k], k) /\ cache[k].asof \in Nat
      BY <3>1, <2>1, <2>4 DEF KeyInv, Cached, Young, Snap
    <3>4. QED
      BY <2>1, <2>2, <3>1, <3>2, <3>3, <1>1 DEF KeyInv, Cached, Young
  <2>5. QED
    BY <2>3, <2>4
<1>6. QED
  BY <1>3, <1>4, <1>5 DEF IInv

LEMMA LoseKeeps ==
    ASSUME IInv, NEW k \in DOMAIN cache, Lose(k)
    PROVE  IInv'
<1>1. /\ Types /\ k \in Keys
      /\ cache' = [cache EXCEPT ![k] = None] /\ until' = [until EXCEPT ![k] = 0]
      /\ UNCHANGED <<clock, pc, ask, out, made, began, newest>>
  BY DEF IInv, Types, Lose
<1>2. Types'
  BY <1>1 DEF Types
<1>3. ASSUME NEW c \in Caller PROVE CallerInv(c)'
  <2>1. CallerInv(c)
    BY DEF IInv
  <2>2. QED
    BY <2>1, <1>1, Resting
<1>4. ASSUME NEW j \in Keys PROVE KeyInv(j)'
  <2>1. KeyInv(j)
    BY DEF IInv
  <2>2. CASE j = k
    BY <2>1, <2>2, <1>1 DEF KeyInv, Cached, Read, Types
  <2>3. CASE j # k
    <3>1. cache'[j] = cache[j] /\ until'[j] = until[j]
      BY <2>3, <1>1 DEF Types
    <3>2. QED
      BY <3>1, <2>1, <1>1 DEF KeyInv, Cached, Read, Young
  <2>4. QED
    BY <2>2, <2>3
<1>5. QED
  BY <1>2, <1>3, <1>4 DEF IInv

LEMMA NextKeeps == IInv /\ [Next]_vars => IInv'
<1> SUFFICES ASSUME IInv, [Next]_vars PROVE IInv'
  OBVIOUS
<1>1. CASE UNCHANGED vars
  <2>1. UNCHANGED <<clock, cache, until, pc, ask, out, made, began, newest>>
    BY <1>1 DEF vars
  <2>2. \A c \in Caller : CallerInv(c)'
    BY <2>1, Resting DEF IInv
  <2>3. \A k \in Keys : KeyInv(k)'
    BY <2>1, SameKeys DEF IInv
  <2>4. QED
    BY <2>1, <2>2, <2>3 DEF IInv, Types
<1>2. CASE Next
  BY <1>2, RequestKeeps, HitKeeps, MissKeeps, QuotedKeeps, StoredKeeps, FailKeeps, TickKeeps, LoseKeeps
     DEF Next, Proceed
<1>3. QED
  BY <1>1, <1>2

\* The inductive invariant holds always.
LEMMA Invariance == Spec => []IInv
BY InitIInv, NextKeeps, PTL DEF Spec

(* Whatever overlaps, an answer is about what its item asked for, or empty.  *)
THEOREM AnswersAreForTheItem == Spec => []AnswersMatch
<1>1. IInv => AnswersMatch
  BY DEF IInv, CallerInv, Answered, AnswersMatch
<1>2. QED
  BY <1>1, Invariance, PTL

(* Nothing read more than a TTL and one delay before the request came in is  *)
(* sent.                                                                     *)
THEOREM AgeIsBounded == Spec => []StalenessBounded
<1>1. IInv => StalenessBounded
  BY DEF IInv, CallerInv, Answered, StalenessBounded
<1>2. QED
  BY <1>1, Invariance, PTL

(* A slow fetch takes a key back by no more than its delay.                  *)
THEOREM RegressIsBounded == Spec => []BackwardsBounded
<1>1. IInv => BackwardsBounded
  BY DEF IInv, KeyInv, Cached, BackwardsBounded, Types
<1>2. QED
  BY <1>1, Invariance, PTL

-----------------------------------------------------------------------------
\* A key that Redis kept is there until its expiry, and then is not.
Timely(k) ==
    stored[k] # None => IF cache[k] = None THEN clock >= stored[k] + Ttl[k.kind]
                                           ELSE until[k] = stored[k] + Ttl[k.kind]

AllTimely == stored \in [Keys -> Nat \cup {None}] /\ \A k \in Keys : Timely(k)

LEMMA InitTimely == Init => AllTimely
BY DEF Init, AllTimely, Timely, Keys

LEMMA SetTimely ==
    ASSUME IInv, AllTimely, NEW c \in Caller, pc[c] = "set", Set(c), clock' = clock
    PROVE  AllTimely'
<1> DEFINE k == CurrentKey(c)
<1>1. Types /\ CallerInv(c) /\ stored \in [Keys -> Nat \cup {None}]
  BY DEF IInv, AllTimely
<1>2. /\ Current(c) \in Item /\ k \in Keys /\ k.kind = Current(c).kind
  BY <1>1, CurrentFacts, KeyFacts DEF CurrentKey
<1>3. /\ cache' = [cache EXCEPT ![k] = made[c]]
      /\ until' = [until EXCEPT ![k] = clock + Ttl[k.kind]]
      /\ stored' = [stored EXCEPT ![k] = clock]
  BY <1>2 DEF Set, Replaced, Expiry
<1>4. clock \in Nat /\ made[c] # None
  BY <1>1, Assumptions DEF Types, CallerInv, Pending, Young
<1> HIDE DEF k
<1>5. ASSUME NEW j \in Keys PROVE Timely(j)'
  <2>1. CASE j = k
    BY <2>1, <1>1, <1>3, <1>4 DEF Types, Timely
  <2>2. CASE j # k
    BY <2>2, <1>1, <1>3 DEF Types, AllTimely, Timely
  <2>3. QED
    BY <2>1, <2>2
<1>6. stored' \in [Keys -> Nat \cup {None}]
  BY <1>1, <1>3, <1>4
<1>7. QED
  BY <1>5, <1>6 DEF AllTimely

LEMMA TickTimely ==
    ASSUME IInv, AllTimely, Tick
    PROVE  AllTimely'
<1>1. /\ Types /\ clock \in Nat /\ clock' = clock + 1 /\ DOMAIN cache = Keys
      /\ stored' = stored /\ stored \in [Keys -> Nat \cup {None}]
  BY DEF IInv, Types, Tick, AllTimely
<1>2. /\ cache' = [k \in Keys |-> IF Ends(k) THEN None ELSE cache[k]]
      /\ until' = [k \in Keys |-> IF Ends(k) THEN 0 ELSE until[k]]
  BY <1>1 DEF Tick
<1>3. ASSUME NEW k \in Keys, stored[k] # None PROVE Timely(k)'
  <2>1. Timely(k) /\ stored[k] \in Nat /\ until[k] \in Nat /\ Ttl[k.kind] \in Nat
    <3>1. PICK i \in Item : k = Key(i)
      BY DEF Keys
    <3>2. k.kind \in Kinds
      BY <3>1, KeyFacts
    <3>3. QED
      BY <3>2, <1>1, <1>3, TtlFacts DEF AllTimely, Types
  <2>2. CASE cache[k] = None
    BY <2>1, <2>2, <1>1, <1>2, <1>3 DEF Timely
  <2>3. CASE cache[k] # None
    BY <2>1, <2>3, <1>1, <1>2, <1>3 DEF Timely, Ends
  <2>4. QED
    BY <2>2, <2>3
<1>4. QED
  BY <1>1, <1>3 DEF AllTimely, Timely

LEMMA LoseTimely ==
    ASSUME IInv, AllTimely, NEW k \in DOMAIN cache, Lose(k)
    PROVE  AllTimely'
BY DEF IInv, Types, AllTimely, Timely, Lose

LEMMA NextTimely == IInv /\ AllTimely /\ [Next]_vars => AllTimely'
<1> SUFFICES ASSUME IInv, AllTimely, [Next]_vars PROVE AllTimely'
  OBVIOUS
<1>1. ASSUME UNCHANGED <<clock, cache, until, stored>> PROVE AllTimely'
  BY <1>1 DEF AllTimely, Timely
<1>2. ASSUME NEW c \in Caller, Proceed(c) PROVE AllTimely'
  <2>1. CASE Hit(c)
    BY <2>1, <1>1 DEF Hit, Append1
  <2>2. CASE Miss(c) \/ \E known \in BOOLEAN : Quoted(c, known)
    BY <2>2, <1>1 DEF Miss, Quoted
  <2>3. CASE Stored(c)
    BY <2>3, SetTimely DEF Stored, Append1
  <2>4. CASE Fail(c)
    BY <2>4, <1>1, SetTimely DEF Fail
  <2>5. QED
    BY <1>2, <2>1, <2>2, <2>3, <2>4 DEF Proceed
<1>3. ASSUME NEW c \in Caller, NEW list \in Ask, Request(c, list) PROVE AllTimely'
  BY <1>3, <1>1 DEF Request
<1>4. CASE UNCHANGED vars
  BY <1>4, <1>1 DEF vars
<1>5. QED
  BY <1>1, <1>2, <1>3, <1>4, TickTimely, LoseTimely DEF Next

\* A request that goes on to Schwab found nothing under its key.
LEMMA MissStep ==
    ASSUME IInv, AllTimely, [Next]_vars, NEW c \in Caller, pc[c] = "get", pc'[c] = "call"
    PROVE  /\ CurrentKey(c) \in Keys /\ CurrentKey(c).kind = Current(c).kind
           /\ cache[CurrentKey(c)] = None
<1>1. Types /\ CallerInv(c)
  BY DEF IInv
<1>2. CurrentKey(c) \in Keys /\ CurrentKey(c).kind = Current(c).kind
  BY <1>1, CurrentFacts, KeyFacts DEF CurrentKey
<1>3. Miss(c)
  <2>1. pc' # pc
    OBVIOUS
  <2>2. PICK d \in Caller : Proceed(d) \/ \E list \in Ask : Request(d, list)
    BY <2>1 DEF Next, vars, Tick, Lose
  <2>3. pc' = [pc EXCEPT ![d] = pc'[d]]
    BY <2>2, <1>1 DEF Proceed, Hit, Miss, Quoted, Stored, Fail, Append1, Request, Types
  <2>4. d = c
    BY <2>3, <1>1 DEF Types
  <2>5. QED
    BY <2>2, <2>4, <1>1
       DEF Proceed, Hit, Quoted, Stored, Fail, Append1, AfterItem, AfterError, Request, Types
<1>4. QED
  BY <1>2, <1>3 DEF Miss

(* Schwab is not asked again for a key within its TTL, unless Redis lost it: *)
(* concurrent requests and their SETs never shorten an expiry.               *)
THEOREM MissesAreExpired == Spec => MissMeansExpired
<1> DEFINE Due(c) ==
        LET last == stored[[Current(c) EXCEPT !.form = Canonical(Current(c))]]
        IN  last = None \/ clock >= last + Ttl[Current(c).kind]
<1>1. IInv /\ AllTimely /\ [Next]_vars =>
        [\A c \in Caller : (pc[c] = "get" /\ pc'[c] = "call") => Due(c)]_vars
  <2> SUFFICES ASSUME IInv, AllTimely, [Next]_vars,
                      NEW c \in Caller, pc[c] = "get", pc'[c] = "call"
               PROVE  Due(c)
    OBVIOUS
  <2>1. [Current(c) EXCEPT !.form = Canonical(Current(c))] = CurrentKey(c)
    BY DEF CurrentKey, Key
  <2>2. QED
    BY <2>1, MissStep DEF AllTimely, Timely
<1>2. Spec => []AllTimely
  BY InitIInv, InitTimely, NextKeeps, NextTimely, Invariance, PTL DEF Spec
<1>3. QED
  BY <1>1, <1>2, Invariance, PTL DEF Spec, MissMeansExpired
=============================================================================
