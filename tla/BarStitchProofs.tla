-------------------------- MODULE BarStitchProofs --------------------------
(***************************************************************************)
(* Proofs about BarStitch, for every set of rows, live bars and windows    *)
(* and every length of a day and of an hour.                               *)
(***************************************************************************)
EXTENDS BarStitch, TLAPS

(* The start of the day or hour of an instant is not after it.             *)
LEMMA FloorIsEarlier ==
    ASSUME NEW t \in Nat, NEW n \in Nat \ {0}
    PROVE  Floor(t, n) \in Int /\ Floor(t, n) <= t
BY DEF Floor

(* A positive number times k is below itself only if k is not positive.    *)
LEMMA Times0 == ASSUME NEW n \in Nat \ {0}, NEW k \in Int, n * k < n PROVE k <= 0
OBVIOUS

(* Two midnights less than a day apart, in this order, are one.            *)
LEMMA MidnightsApart ==
    ASSUME NEW n \in Nat \ {0}, NEW a \in Nat, NEW b \in Nat,
           a % n = 0, b % n = 0, a < b + n
    PROVE  a <= b
<1>1. /\ a = n * (a \div n) /\ a \div n \in Int
      /\ b = n * (b \div n) /\ b \div n \in Int
  OBVIOUS
<1>2. n * ((a \div n) - (b \div n)) < n
  BY <1>1
<1>3. (a \div n) - (b \div n) <= 0
  BY <1>1, <1>2, Times0
<1>4. a \div n <= b \div n
  BY <1>1, <1>3
<1>5. n * (a \div n) <= n * (b \div n)
  BY <1>1, <1>4
<1>6. QED
  BY <1>1, <1>5

(* What is left over a multiple is the remainder.                          *)
LEMMA Remainder ==
    ASSUME NEW n \in Nat \ {0}, NEW k \in Int, NEW m \in 0..(n - 1), NEW b \in Nat,
           b = n * k + m
    PROVE  b % n = m
OBVIOUS

(* The one full hour up to an instant and less than an hour before it.      *)
LEMMA FullHour ==
    ASSUME NEW n \in Nat \ {0}, NEW a \in Nat, NEW b \in Nat,
           a % n = 0, a <= b, b < a + n
    PROVE  a = Floor(b, n)
<1>1. a = n * (a \div n) /\ a \div n \in Int
  OBVIOUS
<1>2. PICK k \in Int : a = n * k
  BY <1>1
<1>3. b - a \in 0..(n - 1)
  OBVIOUS
<1>4. PICK m \in 0..(n - 1) : m = b - a
  BY <1>3
<1>5. b = n * k + m
  BY <1>2, <1>4
<1>6. b % n = m
  BY ONLY <1>5, Remainder, n \in Nat \ {0}, b \in Nat, m \in 0..(n - 1), k \in Int
<1>7. QED
  BY <1>4, <1>6 DEF Floor

(* Where the live segment starts: not before the window, and past no       *)
(* instant of a bar that is after the last finalized one.                  *)
LEMMA LiveStartFacts ==
    ASSUME TypeOK, NEW last \in Times \cup {None},
           last # None => last \in Stamped(Times)
    PROVE  /\ LiveStart(last) \in Int
           /\ win.s <= LiveStart(last)
           /\ \A t \in Stamped(Times) :
                 win.s <= t /\ t < LiveStart(last) => t <= last
<1>1. win.s \in Nat /\ DayLength \in Nat \ {0} /\ last \in Int
  BY TimesAssumption DEF TypeOK, Times, None
<1>2. LiveStart(last) \in Int /\ win.s <= LiveStart(last)
  BY <1>1 DEF LiveStart
<1>3. ASSUME NEW t \in Stamped(Times), win.s <= t, t < LiveStart(last)
      PROVE  t <= last
  <2>1. t \in Nat /\ last # None
    BY <1>1, <1>3 DEF LiveStart, Stamped, Times
  <2>2. last \in Nat
    BY <2>1 DEF Times
  <2>3. CASE env.tf = "1d" /\ ~env.option
    <3>1. t % DayLength = 0 /\ last % DayLength = 0
      BY <2>1, <2>3 DEF Stamped
    <3>2. t < last + DayLength
      BY <1>1, <1>3, <2>1, <2>2, <2>3 DEF LiveStart
    <3>3. QED
      BY <1>1, <2>1, <2>2, <3>1, <3>2, MidnightsApart
  <2>4. CASE ~(env.tf = "1d" /\ ~env.option)
    <3>1. t < last
      BY <1>1, <1>3, <2>1, <2>2, <2>4 DEF LiveStart
    <3>2. QED
      BY <2>1, <2>2, <3>1
  <2>5. QED
    BY <2>3, <2>4
<1>4. QED
  BY <1>2, <1>3

(* The sample tail begins less than an hour before the last finalized      *)
(* timestamp, and a daily one after it.                                    *)
LEMMA TailFacts ==
    ASSUME TypeOK, NEW last \in Times, HasTable, last \in Stamped(Times),
           NEW t \in SampleTimes(LiveStart(last), win.e), t <= last
    PROVE  env.tf # "1d" /\ t = Floor(last, HourLength)
<1>1. /\ win.s \in Nat /\ last \in Nat /\ t \in Nat /\ last # None
      /\ DayLength \in Nat \ {0} /\ HourLength \in Nat \ {0}
  BY TimesAssumption DEF TypeOK, Times, None, SampleTimes, Between
<1>2. ASSUME env.tf = "1d" PROVE FALSE
  <2>1. LiveStart(last) \in Nat /\ last + DayLength <= LiveStart(last)
    BY <1>1, <1>2 DEF LiveStart, HasTable
  <2>2. Floor(LiveStart(last), DayLength) <= t
    BY <1>2 DEF SampleTimes, Between
  <2>3. /\ LiveStart(last) % DayLength \in 0..(DayLength - 1)
        /\ LiveStart(last) - (LiveStart(last) % DayLength) <= t
    BY <1>1, <2>1, <2>2 DEF Floor
  <2> QED BY <1>1, <2>1, <2>3
<1>3. CASE env.tf # "1d"
  <2>1. LiveStart(last) \in Nat /\ last <= LiveStart(last)
    BY <1>1, <1>3 DEF LiveStart
  <2>2. Floor(LiveStart(last), HourLength) <= t /\ t % HourLength = 0
    BY <1>3 DEF SampleTimes, Between
  <2>3. /\ LiveStart(last) % HourLength \in 0..(HourLength - 1)
        /\ LiveStart(last) - (LiveStart(last) % HourLength) <= t
    BY <1>1, <2>1, <2>2 DEF Floor
  <2>4. last < t + HourLength BY <1>1, <2>1, <2>3
  <2> QED BY <1>1, <1>3, <2>2, <2>4, FullHour
<1>4. QED
  BY <1>2, <1>3

(* The query of the canonical table: instants, and every row of the range. *)
LEMMA QueryFacts ==
    ASSUME TypeOK, NEW a \in Times, NEW b \in Times
    PROVE  /\ RowsBetween(a, b) \subseteq Times
           /\ rows \cap Between(a, b) \subseteq RowsBetween(a, b)
           /\ \A t \in RowsBetween(a, b) : t <= b
<1>1. a \in Nat /\ Floor(a, DayLength) \in Int /\ Floor(a, DayLength) <= a
  BY TimesAssumption, FloorIsEarlier DEF Times
<1>2. Between(a, b) \subseteq Between(Floor(a, DayLength), b)
  BY <1>1 DEF Between, Times
<1>3. QED
  BY <1>2 DEF RowsBetween, Between

(* The end of the canonical part.                                          *)
LEMMA HistEndFacts ==
    ASSUME TypeOK, NEW last \in Times \cup {None}
    PROVE  /\ HistEnd(last) \in Times
           /\ last # None => HistEnd(last) <= last
           /\ \A t \in Times : (t <= win.e /\ (last # None => t <= last)) => t <= HistEnd(last)
<1>1. win.e \in Times
  BY DEF TypeOK
<1>2. QED
  BY <1>1, TimesAssumption DEF HistEnd, Times

(* What the historical store returns: instants, each with the source of    *)
(* the store, and all the rows of the range.                               *)
LEMMA HistoryFacts ==
    ASSUME TypeOK, NEW a \in Times, NEW b \in Times
    PROVE  /\ DOMAIN History(a, b) \subseteq Times
           /\ History(a, b) \in [DOMAIN History(a, b) -> Sources]
           /\ \A t \in DOMAIN History(a, b) :
                 /\ History(a, b)[t] # "live_schwab"
                 /\ env.postgres => History(a, b)[t] # "sample"
           /\ rows \cap Between(a, b) \subseteq DOMAIN History(a, b)
           /\ \A t \in DOMAIN History(a, b) : t <= b
<1>1. CASE ~env.postgres
  <2>1. /\ SampleTimes(a, b) \subseteq Times /\ rows = {}
        /\ \A t \in SampleTimes(a, b) : t <= b
    BY <1>1 DEF SampleTimes, Between, TypeOK
  <2>2. QED
    BY <1>1, <2>1 DEF History, Bars, Sources
<1>2. CASE env.postgres /\ HasTable
  BY <1>2, QueryFacts DEF History, Bars, Sources
<1>3. CASE env.postgres /\ ~HasTable
  BY <1>3 DEF History, Bars, NoBars, Sources, TypeOK
<1>4. QED
  BY <1>1, <1>2, <1>3

(* The startup state satisfies the invariant.                              *)
LEMMA InitInv == Init => IInv
<1> SUFFICES ASSUME Init PROVE IInv
  OBVIOUS
<1>1. 0 \in Times
  BY TimesAssumption DEF Times
<1>2. rows \subseteq Stamped(RowTimes) /\ (~(env.postgres /\ HasTable) => rows = {})
  BY DEF Init
<1>3. DOMAIN NoBars = {} /\ NoBars \in [DOMAIN NoBars -> Sources]
  BY DEF NoBars, Bars
<1>4. TypeOK
  BY <1>1, <1>2, <1>3 DEF Init, TypeOK, Modes
<1>5. QED
  BY <1>3, <1>4 DEF Init, IInv, FreshLocals, LastIsLate, HistoryRead, HistoryIsFinal, LiveAsked,
     LastIsStamped, FinalizedRowsServed, CanonicalBeatsLive, NoHoleAfterCanonical,
     TailReplacesOneRow, Merging

-----------------------------------------------------------------------------
(* A request comes in.                                                     *)
LEMMA AskStep == IInv /\ Ask => IInv'
<1> SUFFICES ASSUME IInv, Ask PROVE IInv'
  OBVIOUS
<1> USE DEF IInv, Ask
<1>1. lf = None /\ DOMAIN hist = {} /\ DOMAIN live = {}
  BY DEF FreshLocals, NoBars, Bars
<1>2. TypeOK'
  BY <1>1, WindowAssumption DEF TypeOK, Stamped, HasTable, Between, Modes
<1>3. /\ LastIsLate' /\ FreshLocals' /\ LastIsStamped'
      /\ HistoryRead' /\ HistoryIsFinal' /\ LiveAsked'
  BY <1>1 DEF FreshLocals, LastIsLate, HistoryRead, HistoryIsFinal, LiveAsked, LastIsStamped,
     Modes, Merging
<1>4. QED
  BY <1>2, <1>3 DEF FinalizedRowsServed, CanonicalBeatsLive, NoHoleAfterCanonical,
     TailReplacesOneRow, Modes

(* The last finalized timestamp is read.                                   *)
LEMMA ReadLastStep == IInv /\ ReadLast => IInv'
<1> SUFFICES ASSUME IInv, ReadLast PROVE IInv'
  OBVIOUS
<1>1. TypeOK /\ rows \subseteq Stamped(RowTimes) /\ before \subseteq rows
  BY DEF IInv, TypeOK
<1>2. Stamped(RowTimes) \subseteq Stamped(Times) /\ Stamped(Times) \subseteq Times
  BY TimesAssumption DEF Stamped
<1>3. lf' \in Times \cup {None} /\ (lf' # None => lf' \in Stamped(Times))
  BY <1>1, <1>2 DEF ReadLast
<1>4. \A t \in before : lf' # None /\ t <= lf'
  BY <1>1, <1>2, <1>3 DEF ReadLast, None, Times
<1>5. mode \in Merging /\ mode # "historical_only" /\ mode # "live_only"
  BY DEF IInv, HistoryRead, ReadLast, Merging
<1>6. pc' \in {"hist", "live", "merge"}
  BY DEF ReadLast, AfterHistory
<1>7. TypeOK'
  BY <1>1, <1>3, <1>6 DEF TypeOK, ReadLast, Stamped, HasTable, Between
<1>8. ASSUME pc' # "hist", NEW t \in before, win.s <= t, t <= win.e PROVE FALSE
  <2>1. t \in Times /\ t <= HistEnd(lf')
    BY <1>1, <1>2, <1>3, <1>4, <1>8, HistEndFacts
  <2>2. ~(win.s <= HistEnd(lf'))
    BY <1>8 DEF ReadLast
  <2>3. HistEnd(lf') \in Times /\ win.s \in Times
    BY <1>1, <1>3, HistEndFacts DEF TypeOK
  <2>4. QED
    BY <1>8, <2>1, <2>2, <2>3 DEF Times
<1>9. HistoryRead'
  BY <1>5, <1>6, <1>8 DEF IInv, HistoryRead, ReadLast
<1>10. LiveAsked'
  <2> SUFFICES ASSUME pc' = "merge", NEW t \in Stamped(Times) \cap Between(win.s, win.e)
               PROVE  t <= lf'
    BY DEF LiveAsked, ReadLast, Stamped, Between
  <2>1. ~(LiveStart(lf') <= win.e)
    BY <1>5 DEF ReadLast, AfterHistory
  <2>2. LiveStart(lf') \in Int /\ win.e \in Times /\ t \in Times /\ win.s <= t /\ t <= win.e
    BY <1>1, <1>3, LiveStartFacts DEF TypeOK, Between
  <2>3. t < LiveStart(lf')
    BY <2>1, <2>2 DEF Times
  <2>4. QED
    BY <1>1, <1>3, <2>2, <2>3, LiveStartFacts
<1>11. LastIsLate' /\ FreshLocals' /\ LastIsStamped' /\ HistoryIsFinal'
  <2>1. lf' # None => env.postgres /\ HasTable
    BY <1>1 DEF ReadLast, TypeOK
  <2> QED
    BY <1>3, <1>4, <1>6, <2>1 DEF IInv, HistoryIsFinal, LastIsLate, FreshLocals, LastIsStamped,
       ReadLast, Stamped, HasTable
<1>12. QED
  BY <1>6, <1>7, <1>9, <1>10, <1>11 DEF IInv, FinalizedRowsServed, CanonicalBeatsLive,
     NoHoleAfterCanonical, TailReplacesOneRow

(* The historical store is read.                                           *)
LEMMA ReadHistoryStep == IInv /\ ReadHistory => IInv'
<1> SUFFICES ASSUME IInv, ReadHistory PROVE IInv'
  OBVIOUS
<1>1. /\ TypeOK /\ before \subseteq rows
      /\ win.s \in Times /\ win.e \in Times /\ lf \in Times \cup {None}
      /\ lf # None => lf \in Stamped(Times)
  BY DEF IInv, TypeOK, LastIsStamped
<1>2. HistEnd(lf) \in Times
  BY <1>1, HistEndFacts
<1>3. /\ DOMAIN hist' \subseteq Times
      /\ hist' \in [DOMAIN hist' -> Sources]
      /\ \A t \in DOMAIN hist' :
            /\ hist'[t] # "live_schwab"
            /\ env.postgres => hist'[t] # "sample"
      /\ rows \cap Between(win.s, HistEnd(lf)) \subseteq DOMAIN hist'
  BY <1>1, <1>2, HistoryFacts DEF ReadHistory
<1>4. pc' \in {"live", "merge"}
  BY DEF ReadHistory, AfterHistory
<1>5. TypeOK'
  BY <1>3, <1>4 DEF IInv, TypeOK, ReadHistory, Stamped, HasTable, Between
<1>6. ASSUME mode # "live_only", NEW t \in before, win.s <= t, t <= win.e
      PROVE  t \in DOMAIN hist'
  <2>1. t \in Times
    BY <1>1, TimesAssumption DEF TypeOK, Stamped
  <2>2. lf # None => t <= lf
    BY <1>6 DEF IInv, LastIsLate, HistoryRead, ReadHistory, TypeOK, Modes, Merging
  <2>3. t \in Between(win.s, HistEnd(lf))
    BY <1>1, <1>6, <2>1, <2>2, HistEndFacts DEF Between
  <2>4. QED
    BY <1>1, <1>3, <2>3
<1>7. HistoryRead'
  BY <1>3, <1>4, <1>6 DEF IInv, HistoryRead, ReadHistory
<1>8. LiveAsked'
  <2> SUFFICES ASSUME pc' = "merge", mode \in Merging,
                      NEW t \in Stamped(Times) \cap Between(win.s, win.e)
               PROVE  t <= lf
    BY DEF LiveAsked, ReadHistory, Stamped, Between
  <2>1. ~(LiveStart(lf) <= win.e)
    BY DEF ReadHistory, AfterHistory, Merging
  <2>2. LiveStart(lf) \in Int /\ t \in Times /\ win.s <= t /\ t <= win.e
    BY <1>1, LiveStartFacts DEF Between
  <2>3. t < LiveStart(lf)
    BY <1>1, <2>1, <2>2 DEF Times
  <2>4. QED
    BY <1>1, <2>2, <2>3, LiveStartFacts
<1>9. LastIsLate' /\ FreshLocals' /\ LastIsStamped' /\ HistoryIsFinal'
  <2>1. lf # None => \A t \in DOMAIN hist' : t <= lf
    <3>1. \A t \in DOMAIN hist' : t <= HistEnd(lf) /\ t \in Times
      BY <1>1, <1>2, <1>3, HistoryFacts DEF ReadHistory
    <3>2. lf # None => HistEnd(lf) <= lf BY <1>1, HistEndFacts
    <3> QED BY <1>1, <1>2, <3>1, <3>2, TimesAssumption DEF Times
  <2> QED
    BY <1>4, <2>1 DEF IInv, HistoryIsFinal, LastIsLate, FreshLocals, LastIsStamped, ReadHistory,
       Stamped, HasTable
<1>10. QED
  BY <1>4, <1>5, <1>7, <1>8, <1>9 DEF IInv, FinalizedRowsServed, CanonicalBeatsLive,
     NoHoleAfterCanonical, TailReplacesOneRow

(* The live segment is read.                                               *)
LEMMA ReadLiveStep == IInv /\ ReadLive => IInv'
<1> SUFFICES ASSUME IInv, ReadLive PROVE IInv'
  OBVIOUS
<1>1. /\ TypeOK
      /\ win.s \in Times /\ win.e \in Times /\ lf \in Times \cup {None}
      /\ lf # None => lf \in Stamped(Times)
  BY DEF IInv, TypeOK, LastIsStamped
<1>2. LiveStart(lf) \in Int /\ win.s <= LiveStart(lf)
  BY <1>1, LiveStartFacts
<1>3. asked' = Between(LiveStart(lf), win.e) /\ asked' \subseteq Between(win.s, win.e)
  BY <1>1, <1>2 DEF ReadLive, Between, Times
<1>4. PICK T \in SUBSET (Stamped(LiveTimes) \cap asked') : live' = Bars(T, "live_schwab")
  BY <1>3 DEF ReadLive
<1>5. /\ DOMAIN live' \subseteq Between(win.s, win.e)
      /\ DOMAIN live' \subseteq Times
      /\ live' \in [DOMAIN live' -> Sources]
      /\ \A t \in DOMAIN live' : live'[t] = "live_schwab"
  BY <1>3, <1>4 DEF Bars, Sources, Between
<1>6. asked' \subseteq Times
  BY <1>3 DEF Between
<1>7. TypeOK'
  BY <1>5, <1>6 DEF IInv, TypeOK, ReadLive, Stamped, HasTable, Between
<1>8. HistoryRead'
  BY <1>5 DEF IInv, HistoryRead, ReadLive
<1>9. LiveAsked'
  <2> SUFFICES ASSUME NEW t \in Stamped(Times) \cap Between(win.s, win.e), t \notin asked'
               PROVE  t <= lf
    BY DEF LiveAsked, ReadLive, Stamped, Between
  <2>1. t \in Times /\ win.s <= t /\ t <= win.e
    BY DEF Between
  <2>2. t < LiveStart(lf)
    BY <1>1, <1>2, <1>3, <2>1 DEF Between, Times
  <2>3. QED
    BY <1>1, <2>1, <2>2, LiveStartFacts
<1>10. LastIsLate' /\ FreshLocals' /\ LastIsStamped' /\ HistoryIsFinal'
  BY DEF IInv, HistoryIsFinal, LastIsLate, FreshLocals, LastIsStamped, ReadLive, Stamped, HasTable
<1>11. QED
  BY <1>7, <1>8, <1>9, <1>10 DEF IInv, FinalizedRowsServed, CanonicalBeatsLive,
     NoHoleAfterCanonical, TailReplacesOneRow, ReadLive

(* The lists are merged and the answer is returned.                        *)
LEMMA RespondStep == IInv /\ Respond => IInv'
<1> SUFFICES ASSUME IInv, Respond PROVE IInv'
  OBVIOUS
<1> DEFINE both == Over(hist, live)
<1> DEFINE tail == Bars(SampleTimes(LiveStart(lf), win.e), "sample")
<1>1. /\ DOMAIN hist \subseteq Times /\ hist \in [DOMAIN hist -> Sources]
      /\ DOMAIN live \subseteq Times /\ live \in [DOMAIN live -> Sources]
      /\ \A t \in DOMAIN hist : hist[t] # "live_schwab"
      /\ env.postgres => \A t \in DOMAIN hist : hist[t] # "sample"
      /\ \A t \in DOMAIN live : live[t] = "live_schwab"
  BY DEF IInv, TypeOK, HistoryRead
<1>2. /\ DOMAIN both = DOMAIN hist \cup DOMAIN live
      /\ both \in [DOMAIN both -> Sources]
      /\ \A t \in DOMAIN hist : both[t] = hist[t]
      /\ \A t \in DOMAIN both : t \notin DOMAIN hist => both[t] = live[t]
  BY <1>1 DEF Over
<1>3. DOMAIN tail \subseteq Times /\ tail \in [DOMAIN tail -> Sources]
      /\ \A t \in DOMAIN tail : tail[t] = "sample"
  BY DEF Bars, SampleTimes, Between, Sources
<1>4. /\ DOMAIN Over(tail, both) = DOMAIN tail \cup DOMAIN both
      /\ Over(tail, both) \in [DOMAIN Over(tail, both) -> Sources]
      /\ \A t \in DOMAIN both : Over(tail, both)[t] \in {"sample", both[t]}
  BY <1>2, <1>3 DEF Over
<1> HIDE DEF both, tail
<1>5. answer' = Over(tail, both) \/ answer' = both
  BY DEF Respond, both, tail
<1>6. /\ DOMAIN both \subseteq DOMAIN answer' /\ DOMAIN answer' \subseteq Times
      /\ answer' \in [DOMAIN answer' -> Sources]
      /\ \A t \in DOMAIN both : answer'[t] \in {"sample", both[t]}
  BY <1>1, <1>2, <1>3, <1>4, <1>5
<1>7. TypeOK'
  BY <1>6 DEF IInv, TypeOK, Respond, Stamped, HasTable, Between
<1>8. FinalizedRowsServed'
  BY <1>2, <1>6 DEF IInv, HistoryRead, FinalizedRowsServed, Respond
<1>9. CanonicalBeatsLive'
  BY <1>1, <1>2, <1>6 DEF CanonicalBeatsLive, Respond
<1>10. NoHoleAfterCanonical'
  BY DEF IInv, LiveAsked, NoHoleAfterCanonical, Respond, Stamped, Between
<1>11. TailReplacesOneRow'
  <2> SUFFICES ASSUME NEW t \in DOMAIN hist, answer'[t] # hist[t]
               PROVE  env.tf # "1d" /\ t = Floor(lf, HourLength)
    BY DEF TailReplacesOneRow, Respond, Floor
  <2>1. TailApplies /\ t \in DOMAIN tail
    BY <1>2, <1>3 DEF Respond, both, tail, Over
  <2>2. lf # None /\ lf \in Times /\ lf \in Stamped(Times) /\ HasTable /\ t <= lf
    BY <2>1 DEF TailApplies, IInv, TypeOK, LastIsStamped, HistoryIsFinal
  <2>3. t \in SampleTimes(LiveStart(lf), win.e)
    BY <2>1 DEF tail, Bars
  <2> QED BY <2>2, <2>3, TailFacts DEF IInv
<1>12. /\ LastIsLate' /\ FreshLocals' /\ LastIsStamped'
       /\ HistoryRead' /\ HistoryIsFinal' /\ LiveAsked'
  BY DEF IInv, LastIsLate, FreshLocals, LastIsStamped, HistoryRead, HistoryIsFinal, LiveAsked,
     Respond, Stamped, HasTable
<1>13. QED
  BY <1>7, <1>8, <1>9, <1>10, <1>11, <1>12 DEF IInv

(* The request fails or is over.                                           *)
LEMMA EndStep == IInv /\ (Fail \/ Return) => IInv'
<1> SUFFICES ASSUME IInv, Fail \/ Return PROVE IInv'
  OBVIOUS
<1>1. 0 \in Times
  BY TimesAssumption DEF Times
<1>2. DOMAIN NoBars = {} /\ NoBars \in [DOMAIN NoBars -> Sources]
  BY DEF NoBars, Bars
<1> USE DEF IInv, FreshLocals, LastIsLate, HistoryRead, HistoryIsFinal, LiveAsked, LastIsStamped,
     FinalizedRowsServed, CanonicalBeatsLive, NoHoleAfterCanonical,
     TailReplacesOneRow, Merging, Stamped
<1>3. CASE Fail
  <2>1. TypeOK'
    BY <1>3 DEF Fail, TypeOK, HasTable, Between
  <2>2. QED
    BY <1>3, <2>1 DEF Fail, HistoryIsFinal, HasTable
<1>4. CASE Return
  <2>1. TypeOK'
    BY <1>1, <1>2, <1>4 DEF Return, TypeOK, HasTable, Modes, Between
  <2>2. QED
    BY <1>2, <1>4, <2>1 DEF Return
<1>5. QED
  BY <1>3, <1>4

(* The nightly load adds rows, none of which the request has to answer for. *)
LEMMA LoadStep == IInv /\ Load => IInv'
<1> SUFFICES ASSUME IInv, Load PROVE IInv'
  OBVIOUS
<1>1. rows' \subseteq Stamped(RowTimes) /\ rows \subseteq rows'
  BY DEF IInv, TypeOK, Load
<1>2. TypeOK'
  BY <1>1 DEF IInv, TypeOK, Load, Stamped, HasTable, Between
<1>3. QED
  BY <1>2 DEF IInv, Load, FreshLocals, LastIsLate, HistoryRead, HistoryIsFinal, LiveAsked, LastIsStamped,
     FinalizedRowsServed, CanonicalBeatsLive, NoHoleAfterCanonical,
     TailReplacesOneRow, Stamped, HasTable

(* Nothing changes.                                                        *)
LEMMA StutterStep == IInv /\ UNCHANGED vars => IInv'
BY DEF IInv, vars, TypeOK, FreshLocals, LastIsLate, HistoryRead, HistoryIsFinal, LiveAsked, LastIsStamped,
   FinalizedRowsServed, CanonicalBeatsLive, NoHoleAfterCanonical,
   TailReplacesOneRow, Stamped, HasTable, Between

-----------------------------------------------------------------------------
(* The inductive invariant holds of every behaviour.                       *)
THEOREM Invariance == Spec => []IInv
<1>1. IInv /\ [Next]_vars => IInv'
  BY AskStep, ReadLastStep, ReadHistoryStep, ReadLiveStep, RespondStep, EndStep,
     LoadStep, StutterStep DEF Next
<1>2. QED
  BY InitInv, <1>1, PTL DEF Spec

(* Type correctness; live bars are bars of the window.                     *)
THEOREM TypeCorrect == Spec => []TypeOK
BY Invariance, PTL DEF IInv

(* The rows finalized before a request came in are all in its answer.      *)
THEOREM FinalizedRowsAreServed == Spec => []FinalizedRowsServed
BY Invariance, PTL DEF IInv

(* A bar read from the historical store is never replaced by a live one.   *)
THEOREM CanonicalBeatsLiveBars == Spec => []CanonicalBeatsLive
BY Invariance, PTL DEF IInv

(* No bar time falls between the canonical part and the live segment.      *)
THEOREM NoHole == Spec => []NoHoleAfterCanonical
BY Invariance, PTL DEF IInv

(* Of the bars read from the historical store an answer changes one at     *)
(* most, and no daily one.                                                 *)
THEOREM OneRowIsReplaced == Spec => []TailReplacesOneRow
BY Invariance, PTL DEF IInv
=============================================================================
