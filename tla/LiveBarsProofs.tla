--------------------------- MODULE LiveBarsProofs ---------------------------
(***************************************************************************)
(* Proofs about LiveBars, for every set of requests and writers, every     *)
(* clock, every assignment of instants to days and every setting; and that  *)
(* it implements BarStore.                                                 *)
(***************************************************************************)
EXTENDS BarReads, TLAPS

(* Every instant has its day in the cache, and days are numbers.           *)
LEMMA DayFacts ==
    /\ 0 \in Times
    /\ BarTimes \subseteq Times
    /\ Days \subseteq Int
    /\ \A t \in Times : t \in Nat /\ DayOf[t] \in Days /\ DayOf[t] \in Int
BY TimesAssumption, DayAssumption DEF Times, Days

(* The loop over the days of a window starts on its first day and, as long *)
(* as it has not reached the last one, its next day is a day of the window.*)
LEMMA WindowDays ==
    ASSUME NEW w \in Window
    PROVE  /\ DayOf[w.s] \in Days /\ DayOf[w.e] \in Days
           /\ w.s \in Times /\ w.e \in Times
           /\ Forward(w) => DayOf[w.s] <= DayOf[w.e]
           /\ \A d \in Days : (DayOf[w.s] <= d /\ ~(d >= DayOf[w.e]))
                 => d + 1 \in Days /\ d + 1 <= DayOf[w.e] /\ DayOf[w.s] <= d + 1
           /\ \A t \in InWindow(w) : t \in Times
                 /\ DayOf[w.s] <= DayOf[t] /\ DayOf[t] <= DayOf[w.e]
BY DayFacts, TimesAssumption, DayAssumption DEF Window, Days, Times, InWindow, Forward

(* The window of a request without start and end is a window.              *)
LEMMA DefaultWindows ==
    ASSUME NEW n \in Times
    PROVE  DefaultWindow(n) \in Window
BY DayFacts, TimesAssumption DEF DefaultWindow, Window, Times

(* What the loops over the days of request r's window rely on.             *)
LEMMA LoopFacts ==
    ASSUME TypeOK, LoopDays, NEW r \in Req
    PROVE  /\ win[r] \in Window
           /\ DayOf[win[r].s] \in Int /\ DayOf[win[r].e] \in Int /\ day[r] \in Int
           /\ DayOf[win[r].s] \in Days
           /\ DayOf[win[r].s] <= DayOf[win[r].s]
           /\ Forward(win[r]) => DayOf[win[r].s] <= DayOf[win[r].e]
           /\ (pc[r] \in {"read", "cover", "reread", "recover"} /\ ~LastDay(r))
                 => /\ NextDay(r) = day[r] + 1
                    /\ NextDay(r) \in Days
                    /\ DayOf[win[r].s] <= NextDay(r)
                    /\ NextDay(r) <= DayOf[win[r].e]
           /\ \A t \in InWindow(win[r]) : /\ t \in Times /\ DayOf[t] \in Int
                                          /\ DayOf[win[r].s] <= DayOf[t]
                                          /\ DayOf[t] <= DayOf[win[r].e]
<1>1. win[r] \in Window /\ day[r] \in Days
  BY DEF TypeOK
<1>2. DayOf[win[r].s] \in Days /\ DayOf[win[r].e] \in Days
  BY <1>1, WindowDays
<1>3. \A t \in InWindow(win[r]) : /\ t \in Times /\ DayOf[t] \in Int
                                 /\ DayOf[win[r].s] <= DayOf[t]
                                 /\ DayOf[t] <= DayOf[win[r].e]
  <2>1. \A t \in InWindow(win[r]) : /\ t \in Times
                                   /\ DayOf[win[r].s] <= DayOf[t]
                                   /\ DayOf[t] <= DayOf[win[r].e]
    BY <1>1, WindowDays
  <2>2. QED
    BY <2>1, DayFacts
<1>4. QED
  <2>1. DayOf[win[r].s] \in Int /\ DayOf[win[r].e] \in Int /\ day[r] \in Int
    BY <1>1, <1>2, DayFacts
  <2>2. /\ DayOf[win[r].s] <= DayOf[win[r].s]
        /\ Forward(win[r]) => DayOf[win[r].s] <= DayOf[win[r].e]
    BY <1>1, <2>1, WindowDays
  <2>3. ASSUME pc[r] \in {"read", "cover", "reread", "recover"}, ~LastDay(r)
        PROVE  /\ NextDay(r) = day[r] + 1
               /\ NextDay(r) \in Days
               /\ DayOf[win[r].s] <= NextDay(r)
               /\ NextDay(r) <= DayOf[win[r].e]
    <3>1. DayOf[win[r].s] <= day[r] /\ ~(day[r] >= DayOf[win[r].e])
      BY <2>3 DEF LoopDays, LastDay
    <3>2. QED
      BY <1>1, <3>1, WindowDays DEF NextDay
  <2>4. QED
    BY <1>1, <1>2, <1>3, <2>1, <2>2, <2>3

(* The startup state satisfies the invariant.                              *)
LEMMA InitInv == Init => IInv
<1> SUFFICES ASSUME Init PROVE IInv
  OBVIOUS
<1>1. TypeOK
  BY DayFacts, WindowAssumption DEF Init, TypeOK, Window, Labels
<1>2. QED
  BY <1>1 DEF Init, IInv, LoopDays, FreshSnapshot, KeptIsCached, HeldIsMarked,
              SpannedIsCovered, ReadSoFar,
              MissSuppressesBackfill, SpannedAnswersEarly, PartialsRetained,
              Backfilling

(* What a write or the expiry of one day's key keeps of the types.         *)
LEMMA StoreTypes ==
    ASSUME TypeOK, NEW d \in Days, NEW B \in SUBSET BarTimes,
           B \subseteq OnDay(d), Store(d, B)
    PROVE  /\ blob' \in [Days -> SUBSET BarTimes]
           /\ \A e \in Days : blob'[e] \subseteq OnDay(e)
           /\ dirty' \in [Req -> BOOLEAN]
           /\ kept' \in [Req -> SUBSET BarTimes]
           /\ held' \in [Req -> BOOLEAN]
           /\ spanned' \in [Req -> BOOLEAN]
           /\ marked' = marked /\ legacy' = legacy
<1> USE DEF Store, TypeOK
<1>1. /\ blob' \in [Days -> SUBSET BarTimes]
      /\ \A e \in Days : blob'[e] \subseteq OnDay(e)
      /\ dirty' \in [Req -> BOOLEAN]
      /\ marked' = marked /\ legacy' = legacy
  OBVIOUS
<1>2. kept' \in [Req -> SUBSET BarTimes]
  BY DEF Observe
<1>3. held' \in [Req -> BOOLEAN] /\ spanned' \in [Req -> BOOLEAN]
  BY DEF Observe
<1>4. QED
  BY <1>1, <1>2, <1>3

(* A request that comes in with window w.                                  *)
LEMMA BeginTypes ==
    ASSUME TypeOK, NEW r \in Req, NEW w \in Window, Begin(r, w),
           now' \in Times
    PROVE  TypeOK'
<1> USE DEF TypeOK, Begin, Goto, cache, writer
<1>1. kept' \in [Req -> SUBSET BarTimes]
  <2>1. {t \in InWindow(w) : t \in blob[DayOf[t]]} \subseteq BarTimes
    BY DayFacts DEF InWindow
  <2>2. QED
    BY <2>1
<1>2. /\ win' \in [Req -> Window]
      /\ day' \in [Req -> Days]
  BY WindowDays
<1>3. \A q \in Req : live'[q] \cup out'[q] \subseteq InWindow(win'[q])
  OBVIOUS
<1>4. /\ pc' \in [Req -> Labels]
      /\ held' \in [Req -> BOOLEAN]
      /\ spanned' \in [Req -> BOOLEAN]
  BY DEF Labels, Covered
<1>5. QED
  BY <1>1, <1>2, <1>3, <1>4 DEF InWindow

(* Every step keeps every variable in its type.                           *)
LEMMA TypeStep == IInv /\ [Next]_vars => TypeOK'
<1> SUFFICES ASSUME IInv, [Next]_vars PROVE TypeOK'
  OBVIOUS
<1> USE DEF IInv, Goto, Reply, ReadsOnly, cache, locals, writer
<1>1. ASSUME NEW r \in Req, Start(r) PROVE TypeOK'
  <2>1. PICK w \in Windows : Begin(r, w)
    BY <1>1 DEF Start
  <2>2. w \in Window /\ now' \in Times
    BY <1>1, WindowAssumption DEF Start, TypeOK
  <2>3. QED
    BY <2>1, <2>2, BeginTypes
<1>2. ASSUME NEW r \in Req, StartNow(r) PROVE TypeOK'
  <2>1. now + 1 \in Times /\ now' \in Times
    BY <1>2, TimesAssumption DEF StartNow, TypeOK, Times
  <2>2. QED
    BY <1>2, <2>1, DefaultWindows, BeginTypes DEF StartNow
<1>3. ASSUME NEW r \in Req, ReadDay(r) PROVE TypeOK'
  BY <1>3, LoopFacts DEF TypeOK, ReadDay, NoLiveBars, Labels
<1>4. ASSUME NEW r \in Req, CoverDay(r) PROVE TypeOK'
  <2>1. day' \in [Req -> Days]
    BY <1>4, LoopFacts DEF TypeOK, CoverDay
  <2>2. pc' \in [Req -> Labels] /\ answer' \in [Req -> SUBSET BarTimes]
    BY <1>4 DEF TypeOK, CoverDay, Labels
  <2>3. QED
    BY <1>4, <2>1, <2>2 DEF TypeOK, CoverDay
<1>5. ASSUME NEW r \in Req, CheckMiss(r) PROVE TypeOK'
  <2>1. pc' \in [Req -> Labels] /\ answer' \in [Req -> SUBSET BarTimes]
    BY <1>5 DEF TypeOK, CheckMiss, Unmarked, Labels, Backfilling
  <2>2. QED
    BY <1>5, <2>1 DEF TypeOK, CheckMiss
<1>6. ASSUME NEW r \in Req, DropLegacy(r) PROVE TypeOK'
  BY <1>6 DEF TypeOK, DropLegacy, Unmarked, Mark, Observe, Labels, Backfilling
<1>7. ASSUME NEW r \in Req, FetchNothing(r) PROVE TypeOK'
  BY <1>7, LoopFacts DEF TypeOK, FetchNothing, Labels, Backfilling
<1>8. ASSUME NEW r \in Req, FetchBars(r) PROVE TypeOK'
  <2>1. todo' \in [Req -> SUBSET BarTimes] /\ day' \in [Req -> Days]
    <3>1. PICK B \in SUBSET BarTimes :
            LET touched == {DayOf[t] : t \in B \cap InWindow(win[r])} IN
            /\ todo' = [todo EXCEPT ![r] = {t \in B : DayOf[t] \in touched}]
            /\ \E d \in touched : day' = [day EXCEPT ![r] = d]
      BY <1>8 DEF FetchBars, CandleTimes
    <3>2. PICK t \in B \cap InWindow(win[r]) : day' = [day EXCEPT ![r] = DayOf[t]]
      BY <3>1
    <3>3. DayOf[t] \in Days
      BY DayFacts
    <3>4. QED
      BY <3>1, <3>2, <3>3 DEF TypeOK
  <2>2. pc' \in [Req -> Labels]
    BY <1>8 DEF TypeOK, FetchBars, Labels, Backfilling
  <2>3. QED
    BY <1>8, <2>1, <2>2 DEF TypeOK, FetchBars
<1>9. ASSUME NEW r \in Req, TxWatch(r) PROVE TypeOK'
  BY <1>9 DEF TypeOK, TxWatch, Labels, Backfilling
<1>10. ASSUME NEW r \in Req, TxGet(r) PROVE TypeOK'
  BY <1>10 DEF TypeOK, TxGet, Labels, Backfilling
<1>11. ASSUME NEW r \in Req, TxRetry(r) PROVE TypeOK'
  BY <1>11 DEF TypeOK, TxRetry, Labels, Backfilling
<1>12. ASSUME NEW r \in Req, TxExec(r) PROVE TypeOK'
  <2>1. /\ MergedDay(r) \in SUBSET BarTimes
        /\ MergedDay(r) \subseteq OnDay(day[r])
        /\ day[r] \in Days
    BY <1>12 DEF TypeOK, FreshSnapshot, TxExec, Conflict, MergedDay
  <2>2. day' \in [Req -> Days]
    BY <1>12, DayFacts, LoopFacts DEF TypeOK, TxExec
  <2>3. /\ todo' \in [Req -> SUBSET BarTimes]
        /\ snap' \in [Req -> SUBSET BarTimes]
        /\ pc' \in [Req -> Labels]
    BY <1>12 DEF TypeOK, TxExec, Labels, Backfilling
  <2>4. Store(day[r], MergedDay(r))
    BY <1>12 DEF TxExec
  <2>5. QED
    BY <1>12, <2>1, <2>2, <2>3, <2>4, StoreTypes DEF TypeOK, TxExec
<1>13. ASSUME NEW r \in Req, RereadDay(r) PROVE TypeOK'
  BY <1>13, LoopFacts DEF TypeOK, RereadDay, Labels, Backfilling
<1>14. ASSUME NEW r \in Req, RecoverDay(r) PROVE TypeOK'
  BY <1>14, LoopFacts DEF TypeOK, RecoverDay, Labels, Backfilling
<1>15. ASSUME NEW r \in Req, SyncMiss(r) PROVE TypeOK'
  BY <1>15 DEF TypeOK, SyncMiss, Mark, Observe, FinalAnswer, Labels
<1>16. ASSUME NEW r \in Req, Fail(r) PROVE TypeOK'
  BY <1>16 DEF TypeOK, Fail, Labels
<1>17. ASSUME NEW r \in Req, Return(r) PROVE TypeOK'
  BY <1>17, DayFacts DEF TypeOK, Return, Labels, Window
<1>18. ASSUME NEW u \in Writers, UpsertGet(u) PROVE TypeOK'
  BY <1>18, DayFacts DEF TypeOK, UpsertGet
<1>19. ASSUME NEW u \in Writers, UpsertSet(u) PROVE TypeOK'
  <2>1. PICK d \in Days, B \in SUBSET BarTimes :
           d = DayOf[ubar[u]] /\ B = ubase[u] \cup {ubar[u]}
    BY <1>19, DayFacts DEF TypeOK, UpsertSet
  <2>2. B \subseteq OnDay(d)
    BY <1>19, <2>1 DEF TypeOK, UpsertSet, OnDay
  <2>3. Store(d, B)
    BY <1>19, <2>1 DEF UpsertSet
  <2>4. QED
    BY <1>19, <2>2, <2>3, StoreTypes, DayFacts DEF TypeOK, UpsertSet
<1>20. ASSUME NEW u \in Writers, SetLiveBarsDay(u) PROVE TypeOK'
  <2>1. PICK d \in Days : \E B \in SUBSET (BarTimes \cap OnDay(d)) : Store(d, B)
    BY <1>20 DEF SetLiveBarsDay
  <2>2. QED
    BY <1>20, <2>1, StoreTypes DEF TypeOK, SetLiveBarsDay
<1>21. ASSUME NEW d \in Days, ExpireDay(d) PROVE TypeOK'
  BY <1>21, DayFacts DEF TypeOK, ExpireDay, Store, Observe
<1>22. ASSUME NEW w \in marked \cup legacy, ExpireMiss(w) PROVE TypeOK'
  BY <1>22 DEF TypeOK, ExpireMiss, Mark, Observe
<1>23. CASE UNCHANGED vars
  BY <1>23 DEF TypeOK, vars
<1>24. QED
  BY <1>1, <1>2, <1>3, <1>4, <1>5, <1>6, <1>7, <1>8, <1>9, <1>10, <1>11, <1>12,
     <1>13, <1>14, <1>15, <1>16, <1>17, <1>18, <1>19, <1>20, <1>21, <1>22, <1>23
  DEF Next, Request, Arrive, Proceed

(* A request comes in for some window.                                     *)
LEMMA Arrivals ==
    ASSUME TypeOK, NEW r \in Req, Arrive(r)
    PROVE  \E w \in Window : Begin(r, w)
<1>1. CASE Start(r)
  BY <1>1, WindowAssumption DEF Start
<1>2. CASE StartNow(r)
  <2>1. now + 1 \in Times
    BY <1>2, TimesAssumption DEF StartNow, TypeOK, Times
  <2>2. QED
    BY <1>2, <2>1, DefaultWindows DEF StartNow
<1>3. QED
  BY <1>1, <1>2 DEF Arrive

(* The loops over the days of a window stay inside it.                     *)
LEMMA LoopDaysStep == IInv /\ [Next]_vars => LoopDays'
<1> SUFFICES ASSUME IInv, [Next]_vars PROVE LoopDays'
  OBVIOUS
<1> USE DEF IInv, TypeOK, LoopDays, Goto, Reply, locals
<1>1. ASSUME NEW r \in Req, Arrive(r) PROVE LoopDays'
  <2>1. PICK w \in Window : Begin(r, w)
    BY <1>1, Arrivals
  <2>2. DayOf[w.s] \in Int /\ (Forward(w) => DayOf[w.s] <= DayOf[w.e])
    BY <2>1, WindowDays, DayFacts
  <2>3. DayOf[w.s] <= DayOf[w.s]
    BY <2>2
  <2>4. QED
    BY <2>1, <2>2, <2>3 DEF Begin
<1>2. ASSUME NEW r \in Req, ReadDay(r) PROVE LoopDays'
  BY <1>2, LoopFacts DEF ReadDay, NoLiveBars
<1>3. ASSUME NEW r \in Req, CoverDay(r) PROVE LoopDays'
  BY <1>3, LoopFacts DEF CoverDay
<1>4. ASSUME NEW r \in Req,
           \/ CheckMiss(r) \/ DropLegacy(r) \/ FetchBars(r)
           \/ TxWatch(r)
    PROVE  LoopDays'
  BY <1>4 DEF CheckMiss, DropLegacy, Unmarked, FetchBars, TxWatch
<1>5. ASSUME NEW r \in Req,
           \/ TxGet(r) \/ TxRetry(r) \/ SyncMiss(r) \/ Fail(r)
           \/ Return(r)
    PROVE  LoopDays'
  BY <1>5 DEF TxGet, TxRetry, SyncMiss, Fail, Return
<1>6. ASSUME NEW r \in Req, FetchNothing(r) PROVE LoopDays'
  BY <1>6, LoopFacts DEF FetchNothing
<1>7. ASSUME NEW r \in Req, TxExec(r) PROVE LoopDays'
  BY <1>7, LoopFacts DEF TxExec
<1>8. ASSUME NEW r \in Req, RereadDay(r) PROVE LoopDays'
  BY <1>8, LoopFacts DEF RereadDay
<1>9. ASSUME NEW r \in Req, RecoverDay(r) PROVE LoopDays'
  BY <1>9, LoopFacts DEF RecoverDay
<1>10. ASSUME NEW u \in Writers,
           \/ UpsertGet(u) \/ UpsertSet(u) \/ SetLiveBarsDay(u)
    PROVE  LoopDays'
  BY <1>10 DEF UpsertGet, UpsertSet, SetLiveBarsDay
<1>11. ASSUME NEW d \in Days, ExpireDay(d) PROVE LoopDays'
  BY <1>11 DEF ExpireDay
<1>12. ASSUME NEW w \in marked \cup legacy, ExpireMiss(w) PROVE LoopDays'
  BY <1>12 DEF ExpireMiss
<1>13. CASE UNCHANGED vars
  BY <1>13 DEF vars
<1>14. QED
  BY <1>1, <1>2, <1>3, <1>4, <1>5, <1>6, <1>7, <1>8, <1>9, <1>10, <1>11, <1>12,
     <1>13
  DEF Next, Request, Proceed

(* Whoever writes a WATCHed key makes the EXEC of its watchers abort.      *)
LEMMA FreshSnapshotStep == IInv /\ [Next]_vars => FreshSnapshot'
<1> SUFFICES ASSUME IInv, [Next]_vars PROVE FreshSnapshot'
  OBVIOUS
<1> USE DEF IInv, TypeOK, FreshSnapshot, Goto, Reply, cache, locals, ReadsOnly
<1>1. ASSUME NEW r \in Req, Arrive(r) PROVE FreshSnapshot'
  <2>1. PICK w \in Window : Begin(r, w)
    BY <1>1, Arrivals
  <2>2. QED
    BY <2>1 DEF Begin
<1>2. ASSUME NEW r \in Req,
           \/ ReadDay(r) \/ CoverDay(r) \/ RereadDay(r)
           \/ RecoverDay(r)
    PROVE  FreshSnapshot'
  BY <1>2 DEF ReadDay, NoLiveBars, CoverDay, RereadDay, RecoverDay
<1>3. ASSUME NEW r \in Req,
           \/ CheckMiss(r) \/ DropLegacy(r) \/ SyncMiss(r)
    PROVE  FreshSnapshot'
  BY <1>3 DEF CheckMiss, DropLegacy, Unmarked, SyncMiss, Mark
<1>4. ASSUME NEW r \in Req,
           \/ FetchNothing(r) \/ FetchBars(r) \/ TxWatch(r)
           \/ TxRetry(r)
    PROVE  FreshSnapshot'
  BY <1>4 DEF FetchNothing, FetchBars, TxWatch, TxRetry
<1>5. ASSUME NEW r \in Req, Fail(r) \/ Return(r) PROVE FreshSnapshot'
  BY <1>5 DEF Fail, Return
<1>6. ASSUME NEW r \in Req, TxGet(r) PROVE FreshSnapshot'
  BY <1>6 DEF TxGet
<1>7. ASSUME NEW r \in Req, TxExec(r) PROVE FreshSnapshot'
  BY <1>7 DEF TxExec, Store, Watching
<1>8. ASSUME NEW u \in Writers, UpsertGet(u) PROVE FreshSnapshot'
  BY <1>8 DEF UpsertGet
<1>9. ASSUME NEW u \in Writers, UpsertSet(u) PROVE FreshSnapshot'
  BY <1>9 DEF UpsertSet, Store, Watching
<1>10. ASSUME NEW u \in Writers, SetLiveBarsDay(u) PROVE FreshSnapshot'
  BY <1>10 DEF SetLiveBarsDay, Store, Watching
<1>11. ASSUME NEW d \in Days, ExpireDay(d) PROVE FreshSnapshot'
  BY <1>11 DEF ExpireDay, Store, Watching
<1>12. ASSUME NEW w \in marked \cup legacy, ExpireMiss(w) PROVE FreshSnapshot'
  BY <1>12 DEF ExpireMiss, Mark
<1>13. CASE UNCHANGED vars
  BY <1>13 DEF vars
<1>14. QED
  BY <1>1, <1>2, <1>3, <1>4, <1>5, <1>6, <1>7, <1>8, <1>9, <1>10, <1>11, <1>12,
     <1>13
  DEF Next, Request, Proceed

(* The history variable kept[r] only holds bars that are still cached.     *)
LEMMA KeptStep == IInv /\ [Next]_vars => KeptIsCached'
<1> SUFFICES ASSUME IInv, [Next]_vars PROVE KeptIsCached'
  OBVIOUS
<1> USE DEF IInv, TypeOK, KeptIsCached, Goto, Reply, cache, locals, ReadsOnly
<1>1. ASSUME NEW r \in Req, Arrive(r) PROVE KeptIsCached'
  <2>1. PICK w \in Window : Begin(r, w)
    BY <1>1, Arrivals
  <2>2. QED
    BY <2>1, DayFacts DEF Begin
<1>2. ASSUME NEW r \in Req,
           \/ ReadDay(r) \/ CoverDay(r) \/ RereadDay(r)
           \/ RecoverDay(r)
    PROVE  KeptIsCached'
  BY <1>2 DEF ReadDay, NoLiveBars, CoverDay, RereadDay, RecoverDay
<1>3. ASSUME NEW r \in Req,
           \/ FetchNothing(r) \/ FetchBars(r) \/ TxWatch(r)
           \/ TxGet(r) \/ TxRetry(r)
    PROVE  KeptIsCached'
  BY <1>3 DEF FetchNothing, FetchBars, TxWatch, TxGet, TxRetry
<1>4. ASSUME NEW r \in Req, CheckMiss(r) \/ Fail(r) PROVE KeptIsCached'
  BY <1>4 DEF CheckMiss, Unmarked, Fail
<1>5. ASSUME NEW r \in Req, DropLegacy(r) \/ SyncMiss(r) PROVE KeptIsCached'
  BY <1>5 DEF DropLegacy, Unmarked, SyncMiss, Mark, Observe
<1>6. ASSUME NEW r \in Req, TxExec(r) PROVE KeptIsCached'
  BY <1>6, DayFacts DEF TxExec, Store, Observe
<1>7. ASSUME NEW r \in Req, Return(r) PROVE KeptIsCached'
  BY <1>7 DEF Return
<1>8. ASSUME NEW u \in Writers, UpsertGet(u) PROVE KeptIsCached'
  BY <1>8 DEF UpsertGet
<1>9. ASSUME NEW u \in Writers, UpsertSet(u) \/ SetLiveBarsDay(u) PROVE KeptIsCached'
  BY <1>9, DayFacts DEF UpsertSet, SetLiveBarsDay, Store, Observe
<1>10. ASSUME NEW d \in Days, ExpireDay(d) PROVE KeptIsCached'
  BY <1>10, DayFacts DEF ExpireDay, Store, Observe
<1>11. ASSUME NEW w \in marked \cup legacy, ExpireMiss(w) PROVE KeptIsCached'
  BY <1>11 DEF ExpireMiss, Mark, Observe
<1>12. CASE UNCHANGED vars
  BY <1>12 DEF vars
<1>13. QED
  BY <1>1, <1>2, <1>3, <1>4, <1>5, <1>6, <1>7, <1>8, <1>9, <1>10, <1>11, <1>12
  DEF Next, Request, Proceed

(* held[r] says that the miss marker of the window is still there.         *)
LEMMA HeldStep == IInv /\ [Next]_vars => HeldIsMarked'
<1> SUFFICES ASSUME IInv, [Next]_vars PROVE HeldIsMarked'
  OBVIOUS
<1> USE DEF IInv, TypeOK, HeldIsMarked, Goto, Reply, cache, locals, ReadsOnly
<1>1. ASSUME NEW r \in Req, Arrive(r) PROVE HeldIsMarked'
  <2>1. PICK w \in Window : Begin(r, w)
    BY <1>1, Arrivals
  <2>2. QED
    BY <2>1 DEF Begin
<1>2. ASSUME NEW r \in Req,
           \/ ReadDay(r) \/ CoverDay(r) \/ RereadDay(r)
           \/ RecoverDay(r)
    PROVE  HeldIsMarked'
  BY <1>2 DEF ReadDay, NoLiveBars, CoverDay, RereadDay, RecoverDay
<1>3. ASSUME NEW r \in Req,
           \/ FetchNothing(r) \/ FetchBars(r) \/ TxWatch(r)
           \/ TxGet(r) \/ TxRetry(r)
    PROVE  HeldIsMarked'
  BY <1>3 DEF FetchNothing, FetchBars, TxWatch, TxGet, TxRetry
<1>4. ASSUME NEW r \in Req, CheckMiss(r) \/ Fail(r) PROVE HeldIsMarked'
  BY <1>4 DEF CheckMiss, Unmarked, Fail
<1>5. ASSUME NEW r \in Req, DropLegacy(r) \/ SyncMiss(r) PROVE HeldIsMarked'
  BY <1>5 DEF DropLegacy, Unmarked, SyncMiss, Mark, Observe
<1>6. ASSUME NEW r \in Req, TxExec(r) PROVE HeldIsMarked'
  BY <1>6 DEF TxExec, Store, Observe
<1>7. ASSUME NEW r \in Req, Return(r) PROVE HeldIsMarked'
  BY <1>7 DEF Return
<1>8. ASSUME NEW u \in Writers, UpsertGet(u) PROVE HeldIsMarked'
  BY <1>8 DEF UpsertGet
<1>9. ASSUME NEW u \in Writers, UpsertSet(u) \/ SetLiveBarsDay(u) PROVE HeldIsMarked'
  BY <1>9 DEF UpsertSet, SetLiveBarsDay, Store, Observe
<1>10. ASSUME NEW d \in Days, ExpireDay(d) PROVE HeldIsMarked'
  BY <1>10 DEF ExpireDay, Store, Observe
<1>11. ASSUME NEW w \in marked \cup legacy, ExpireMiss(w) PROVE HeldIsMarked'
  BY <1>11 DEF ExpireMiss, Mark, Observe
<1>12. CASE UNCHANGED vars
  BY <1>12 DEF vars
<1>13. QED
  BY <1>1, <1>2, <1>3, <1>4, <1>5, <1>6, <1>7, <1>8, <1>9, <1>10, <1>11, <1>12
  DEF Next, Request, Proceed

(* spanned[r] says that the window is covered by what is cached now.       *)
LEMMA SpannedStep == IInv /\ [Next]_vars => SpannedIsCovered'
<1> SUFFICES ASSUME IInv, [Next]_vars PROVE SpannedIsCovered'
  OBVIOUS
<1> USE DEF IInv, TypeOK, SpannedIsCovered, Goto, Reply, cache, locals, ReadsOnly
<1>1. ASSUME NEW r \in Req, Arrive(r) PROVE SpannedIsCovered'
  <2>1. PICK w \in Window : Begin(r, w)
    BY <1>1, Arrivals
  <2>2. QED
    BY <2>1 DEF Begin
<1>2. ASSUME NEW r \in Req,
           \/ ReadDay(r) \/ CoverDay(r) \/ RereadDay(r)
           \/ RecoverDay(r)
    PROVE  SpannedIsCovered'
  BY <1>2 DEF ReadDay, NoLiveBars, CoverDay, RereadDay, RecoverDay
<1>3. ASSUME NEW r \in Req,
           \/ FetchNothing(r) \/ FetchBars(r) \/ TxWatch(r)
           \/ TxGet(r) \/ TxRetry(r)
    PROVE  SpannedIsCovered'
  BY <1>3 DEF FetchNothing, FetchBars, TxWatch, TxGet, TxRetry
<1>4. ASSUME NEW r \in Req, CheckMiss(r) \/ Fail(r) PROVE SpannedIsCovered'
  BY <1>4 DEF CheckMiss, Unmarked, Fail
<1>5. ASSUME NEW r \in Req, DropLegacy(r) \/ SyncMiss(r) PROVE SpannedIsCovered'
  BY <1>5 DEF DropLegacy, Unmarked, SyncMiss, Mark, Observe
<1>6. ASSUME NEW r \in Req, TxExec(r) PROVE SpannedIsCovered'
  BY <1>6 DEF TxExec, Store, Observe
<1>7. ASSUME NEW r \in Req, Return(r) PROVE SpannedIsCovered'
  BY <1>7 DEF Return
<1>8. ASSUME NEW u \in Writers, UpsertGet(u) PROVE SpannedIsCovered'
  BY <1>8 DEF UpsertGet
<1>9. ASSUME NEW u \in Writers,
           \/ UpsertSet(u) \/ SetLiveBarsDay(u)
    PROVE  SpannedIsCovered'
  BY <1>9 DEF UpsertSet, SetLiveBarsDay, Store, Observe
<1>10. ASSUME NEW d \in Days, ExpireDay(d) PROVE SpannedIsCovered'
  BY <1>10 DEF ExpireDay, Store, Observe
<1>11. ASSUME NEW w \in marked \cup legacy, ExpireMiss(w) PROVE SpannedIsCovered'
  BY <1>11 DEF ExpireMiss, Mark, Observe
<1>12. CASE UNCHANGED vars
  BY <1>12 DEF vars
<1>13. QED
  BY <1>1, <1>2, <1>3, <1>4, <1>5, <1>6, <1>7, <1>8, <1>9, <1>10, <1>11, <1>12
  DEF Next, Request, Proceed

(* A request only goes on to Schwab when its GET found no marker.          *)
LEMMA MissStep == IInv /\ [Next]_vars => MissSuppressesBackfill'
<1> SUFFICES ASSUME IInv, [Next]_vars PROVE MissSuppressesBackfill'
  OBVIOUS
<1> USE DEF IInv, TypeOK, MissSuppressesBackfill, HeldIsMarked, Backfilling,
            Goto, Reply, cache, locals, ReadsOnly
<1>1. ASSUME NEW r \in Req, Arrive(r) PROVE MissSuppressesBackfill'
  <2>1. PICK w \in Window : Begin(r, w)
    BY <1>1, Arrivals
  <2>2. QED
    BY <2>1 DEF Begin
<1>2. ASSUME NEW r \in Req,
           \/ ReadDay(r) \/ CoverDay(r) \/ RereadDay(r)
           \/ RecoverDay(r)
    PROVE  MissSuppressesBackfill'
  BY <1>2 DEF ReadDay, NoLiveBars, CoverDay, RereadDay, RecoverDay
<1>3. ASSUME NEW r \in Req,
           \/ FetchNothing(r) \/ FetchBars(r) \/ TxWatch(r)
           \/ TxGet(r) \/ TxRetry(r)
    PROVE  MissSuppressesBackfill'
  BY <1>3 DEF FetchNothing, FetchBars, TxWatch, TxGet, TxRetry
<1>4. ASSUME NEW r \in Req, Fail(r) \/ Return(r) PROVE MissSuppressesBackfill'
  BY <1>4 DEF Fail, Return
<1>5. ASSUME NEW r \in Req, CheckMiss(r) PROVE MissSuppressesBackfill'
  BY <1>5 DEF CheckMiss, MissActive, Unmarked
<1>6. ASSUME NEW r \in Req, DropLegacy(r) PROVE MissSuppressesBackfill'
  BY <1>6 DEF DropLegacy, Unmarked, Mark, Observe
<1>7. ASSUME NEW r \in Req, SyncMiss(r) PROVE MissSuppressesBackfill'
  BY <1>7 DEF SyncMiss, Mark, Observe
<1>8. ASSUME NEW r \in Req, TxExec(r) PROVE MissSuppressesBackfill'
  BY <1>8 DEF TxExec, Store, Observe
<1>9. ASSUME NEW u \in Writers, UpsertGet(u) PROVE MissSuppressesBackfill'
  BY <1>9 DEF UpsertGet
<1>10. ASSUME NEW u \in Writers,
           \/ UpsertSet(u) \/ SetLiveBarsDay(u)
    PROVE  MissSuppressesBackfill'
  BY <1>10 DEF UpsertSet, SetLiveBarsDay, Store, Observe
<1>11. ASSUME NEW d \in Days, ExpireDay(d) PROVE MissSuppressesBackfill'
  BY <1>11 DEF ExpireDay, Store, Observe
<1>12. ASSUME NEW w \in marked \cup legacy, ExpireMiss(w) PROVE MissSuppressesBackfill'
  BY <1>12 DEF ExpireMiss, Mark, Observe
<1>13. CASE UNCHANGED vars
  BY <1>13 DEF vars
<1>14. QED
  BY <1>1, <1>2, <1>3, <1>4, <1>5, <1>6, <1>7, <1>8, <1>9, <1>10, <1>11, <1>12,
     <1>13
  DEF Next, Request, Proceed

(* The days up to and with this one.                                        *)
LEMMA UpToHere ==
    \A a, b \in Int : (a < b + 1 \/ a <= b) => (a = b \/ a < b)
OBVIOUS

(* While the window of a request stays covered, so is the day its loop is   *)
(* at, and the last day has a bar inside the window.                       *)
LEMMA SpannedDay ==
    ASSUME TypeOK, LoopDays, SpannedIsCovered, NEW r \in Req, spanned[r],
           Forward(win[r]), pc[r] \in {"read", "cover"}
    PROVE  /\ DayCovered(env.tf, blob, win[r], day[r])
           /\ LastDay(r) => blob[day[r]] \cap InWindow(win[r]) # {}
<1>1. day[r] \in DayOf[win[r].s]..DayOf[win[r].e]
  BY LoopFacts DEF LoopDays
<1>2. DayCovered(env.tf, blob, win[r], day[r])
  BY <1>1 DEF SpannedIsCovered, Covered
<1>3. LastDay(r) => win[r].e \in Slice(win[r], day[r])
  <2>1. win[r] \in Window /\ DayOf[win[r].e] \in Int /\ day[r] \in Int
    BY LoopFacts
  <2>2. LastDay(r) => day[r] = DayOf[win[r].e]
    BY <1>1, <2>1 DEF LastDay
  <2>3. win[r].e \in Times /\ win[r].s <= win[r].e /\ win[r].e <= win[r].e
    BY <2>1, TimesAssumption DEF Window, Times, Forward
  <2>4. QED
    BY <2>2, <2>3 DEF Slice, OnDay, InWindow
<1>4. QED
  BY <1>2, <1>3 DEF DayCovered, Slice

(* A covered window is answered before any question to Schwab.              *)
LEMMA EarlyStep == IInv /\ [Next]_vars => SpannedAnswersEarly'
<1> SUFFICES ASSUME IInv, [Next]_vars PROVE SpannedAnswersEarly'
  OBVIOUS
<1> USE DEF IInv, TypeOK, SpannedAnswersEarly, Goto, Reply, cache, locals, ReadsOnly
<1>1. ASSUME NEW r \in Req, Arrive(r) PROVE SpannedAnswersEarly'
  <2>1. PICK w \in Window : Begin(r, w)
    BY <1>1, Arrivals
  <2>2. QED
    BY <2>1 DEF Begin
<1>2. ASSUME NEW r \in Req, ReadDay(r) PROVE SpannedAnswersEarly'
  <2>1. (spanned[r] /\ Forward(win[r]) /\ LastDay(r))
            => blob[day[r]] \cap InWindow(win[r]) # {}
    BY <1>2, SpannedDay DEF ReadDay
  <2>2. (spanned[r] /\ Forward(win[r]) /\ LastDay(r))
            => live[r] \cup (blob[day[r]] \cap InWindow(win[r])) # {}
    BY <2>1
  <2>3. QED
    BY <1>2, <2>2 DEF ReadDay, NoLiveBars
<1>3. ASSUME NEW r \in Req, CoverDay(r) PROVE SpannedAnswersEarly'
  <2>1. (spanned[r] /\ Forward(win[r])) => CoveredToday(r)
    BY <1>3, SpannedDay DEF CoverDay, CoveredToday
  <2>2. QED
    BY <1>3, <2>1 DEF CoverDay
<1>4. ASSUME NEW r \in Req,
           \/ RereadDay(r) \/ RecoverDay(r) \/ Fail(r) \/ Return(r)
    PROVE  SpannedAnswersEarly'
  BY <1>4 DEF RereadDay, RecoverDay, Fail, Return
<1>5. ASSUME NEW r \in Req,
           \/ FetchNothing(r) \/ FetchBars(r) \/ TxWatch(r)
           \/ TxGet(r) \/ TxRetry(r)
    PROVE  SpannedAnswersEarly'
  BY <1>5 DEF FetchNothing, FetchBars, TxWatch, TxGet, TxRetry
<1>6. ASSUME NEW r \in Req, CheckMiss(r) PROVE SpannedAnswersEarly'
  BY <1>6 DEF CheckMiss, Unmarked
<1>7. ASSUME NEW r \in Req, DropLegacy(r) \/ SyncMiss(r) PROVE SpannedAnswersEarly'
  BY <1>7 DEF DropLegacy, Unmarked, SyncMiss, Mark, Observe
<1>8. ASSUME NEW r \in Req, TxExec(r) PROVE SpannedAnswersEarly'
  BY <1>8 DEF TxExec, Store, Observe
<1>9. ASSUME NEW u \in Writers, UpsertGet(u) PROVE SpannedAnswersEarly'
  BY <1>9 DEF UpsertGet
<1>10. ASSUME NEW u \in Writers,
           \/ UpsertSet(u) \/ SetLiveBarsDay(u)
    PROVE  SpannedAnswersEarly'
  BY <1>10 DEF UpsertSet, SetLiveBarsDay, Store, Observe
<1>11. ASSUME NEW d \in Days, ExpireDay(d) PROVE SpannedAnswersEarly'
  BY <1>11 DEF ExpireDay, Store, Observe
<1>12. ASSUME NEW w \in marked \cup legacy, ExpireMiss(w) PROVE SpannedAnswersEarly'
  BY <1>12 DEF ExpireMiss, Mark, Observe
<1>13. CASE UNCHANGED vars
  BY <1>13 DEF vars
<1>14. QED
  BY <1>1, <1>2, <1>3, <1>4, <1>5, <1>6, <1>7, <1>8, <1>9, <1>10, <1>11, <1>12,
     <1>13
  DEF Next, Request, Proceed

(* Every read loop picks up what stays cached: the day just read is added   *)
(* to the list, and kept[r] can only shrink afterwards.                    *)
LEMMA ReadSoFarStep == IInv /\ [Next]_vars => ReadSoFar'
<1> SUFFICES ASSUME IInv, [Next]_vars PROVE ReadSoFar'
  OBVIOUS
<1> USE DEF IInv, TypeOK, ReadSoFar, Backfilling, Goto, Reply, cache, locals, ReadsOnly
<1>1. ASSUME NEW r \in Req, Arrive(r) PROVE ReadSoFar'
  <2>1. PICK w \in Window : Begin(r, w)
    BY <1>1, Arrivals
  <2>2. ASSUME NEW t \in InWindow(w) PROVE ~(DayOf[t] < DayOf[w.s])
    <3>1. DayOf[w.s] \in Days /\ t \in Times /\ DayOf[w.s] <= DayOf[t]
      BY <2>1, WindowDays
    <3>2. DayOf[w.s] \in Int /\ DayOf[t] \in Int
      BY <3>1, DayFacts
    <3>3. QED
      BY <3>1, <3>2
  <2>3. QED
    BY <2>1, <2>2 DEF Begin
<1>2. ASSUME NEW r \in Req, ReadDay(r) PROVE ReadSoFar'
  <2>1. \A t \in kept[r] : /\ t \in InWindow(win[r]) /\ t \in blob[DayOf[t]]
                          /\ DayOf[t] \in Int /\ DayOf[t] <= DayOf[win[r].e]
    BY LoopFacts DEF KeptIsCached
  <2>2. \A t \in kept[r] : DayOf[t] = day[r] \/ DayOf[t] < day[r] => t \in live'[r]
    BY <1>2, <2>1 DEF ReadDay
  <2>3. ASSUME NEW t \in kept[r], ~LastDay(r), DayOf[t] < NextDay(r)
        PROVE  DayOf[t] = day[r] \/ DayOf[t] < day[r]
    <3>1. day[r] \in Int /\ NextDay(r) = day[r] + 1 /\ DayOf[t] \in Int
      BY <1>2, <2>1, <2>3, LoopFacts DEF ReadDay
    <3>2. DayOf[t] < day[r] + 1
      BY <2>3, <3>1
    <3>3. QED
      BY <3>1, <3>2, UpToHere
  <2>4. ASSUME NEW t \in kept[r], LastDay(r)
        PROVE  DayOf[t] = day[r] \/ DayOf[t] < day[r]
    <3>1. day[r] \in Int /\ DayOf[t] \in Int /\ DayOf[t] <= day[r]
      BY <2>1, <2>4, LoopFacts DEF LastDay
    <3>2. QED
      BY <3>1, UpToHere
  <2>5. QED
    BY <1>2, <2>2, <2>3, <2>4 DEF ReadDay, NoLiveBars
<1>3. ASSUME NEW r \in Req, CoverDay(r) PROVE ReadSoFar'
  BY <1>3 DEF CoverDay
<1>4. ASSUME NEW r \in Req, CheckMiss(r) PROVE ReadSoFar'
  BY <1>4 DEF CheckMiss, Unmarked
<1>5. ASSUME NEW r \in Req, DropLegacy(r) PROVE ReadSoFar'
  BY <1>5 DEF DropLegacy, Unmarked, Mark, Observe
<1>6. ASSUME NEW r \in Req,
           \/ FetchNothing(r) \/ FetchBars(r) \/ TxWatch(r)
           \/ TxGet(r) \/ TxRetry(r)
    PROVE  ReadSoFar'
  BY <1>6 DEF FetchNothing, FetchBars, TxWatch, TxGet, TxRetry
<1>7. ASSUME NEW r \in Req, TxExec(r) PROVE ReadSoFar'
  <2>1. \A t \in kept[r] : ~(DayOf[t] < DayOf[win[r].s])
    BY LoopFacts DEF KeptIsCached
  <2>2. \A q \in Req : kept'[q] \subseteq kept[q]
    BY <1>7 DEF TxExec, Store, Observe
  <2>3. QED
    BY <1>7, <2>1, <2>2 DEF TxExec
<1>8. ASSUME NEW r \in Req, RereadDay(r) PROVE ReadSoFar'
  <2>1. \A t \in kept[r] : /\ t \in InWindow(win[r]) /\ t \in blob[DayOf[t]]
                          /\ DayOf[t] \in Int /\ DayOf[t] <= DayOf[win[r].e]
    BY LoopFacts DEF KeptIsCached
  <2>2. \A t \in kept[r] : DayOf[t] = day[r] \/ DayOf[t] < day[r] => t \in out'[r]
    BY <1>8, <2>1 DEF RereadDay
  <2>3. ASSUME NEW t \in kept[r], ~LastDay(r), DayOf[t] < NextDay(r)
        PROVE  DayOf[t] = day[r] \/ DayOf[t] < day[r]
    <3>1. day[r] \in Int /\ NextDay(r) = day[r] + 1 /\ DayOf[t] \in Int
      BY <1>8, <2>1, <2>3, LoopFacts DEF RereadDay
    <3>2. DayOf[t] < day[r] + 1
      BY <2>3, <3>1
    <3>3. QED
      BY <3>1, <3>2, UpToHere
  <2>4. ASSUME NEW t \in kept[r], LastDay(r)
        PROVE  DayOf[t] = day[r] \/ DayOf[t] < day[r]
    <3>1. day[r] \in Int /\ DayOf[t] \in Int /\ DayOf[t] <= day[r]
      BY <2>1, <2>4, LoopFacts DEF LastDay
    <3>2. QED
      BY <3>1, UpToHere
  <2>5. QED
    BY <1>8, <2>2, <2>3, <2>4 DEF RereadDay
<1>9. ASSUME NEW r \in Req, RecoverDay(r) PROVE ReadSoFar'
  BY <1>9 DEF RecoverDay
<1>10. ASSUME NEW r \in Req, SyncMiss(r) PROVE ReadSoFar'
  BY <1>10 DEF SyncMiss, Mark, Observe
<1>11. ASSUME NEW r \in Req, Fail(r) \/ Return(r) PROVE ReadSoFar'
  BY <1>11 DEF Fail, Return
<1>12. ASSUME NEW u \in Writers, UpsertGet(u) PROVE ReadSoFar'
  BY <1>12 DEF UpsertGet
<1>13. ASSUME NEW u \in Writers, UpsertSet(u) \/ SetLiveBarsDay(u) PROVE ReadSoFar'
  <2>1. \A q \in Req : kept'[q] \subseteq kept[q]
    BY <1>13 DEF UpsertSet, SetLiveBarsDay, Store, Observe
  <2>2. QED
    BY <1>13, <2>1 DEF UpsertSet, SetLiveBarsDay
<1>14. ASSUME NEW d \in Days, ExpireDay(d) PROVE ReadSoFar'
  BY <1>14 DEF ExpireDay, Store, Observe
<1>15. ASSUME NEW w \in marked \cup legacy, ExpireMiss(w) PROVE ReadSoFar'
  BY <1>15 DEF ExpireMiss, Mark, Observe
<1>16. CASE UNCHANGED vars
  BY <1>16 DEF vars
<1>17. QED
  BY <1>1, <1>2, <1>3, <1>4, <1>5, <1>6, <1>7, <1>8, <1>9, <1>10, <1>11, <1>12,
     <1>13, <1>14, <1>15, <1>16
  DEF Next, Request, Proceed

(* Whichever list a request returns holds the kept bars; the empty list is  *)
(* only returned when there are none or for a series without backfill.     *)
LEMMA PartialsStep == IInv /\ [Next]_vars => PartialsRetained'
<1> SUFFICES ASSUME IInv, [Next]_vars PROVE PartialsRetained'
  OBVIOUS
<1> USE DEF IInv, TypeOK, PartialsRetained, ReadSoFar, Backfilling,
            Goto, Reply, cache, locals, ReadsOnly
<1>1. ASSUME NEW r \in Req, Arrive(r) PROVE PartialsRetained'
  <2>1. PICK w \in Window : Begin(r, w)
    BY <1>1, Arrivals
  <2>2. QED
    BY <2>1 DEF Begin, NoBackfillSeries
<1>2. ASSUME NEW r \in Req, ReadDay(r) PROVE PartialsRetained'
  <2>1. \A t \in kept[r] : /\ t \in InWindow(win[r]) /\ t \in blob[DayOf[t]]
                          /\ DayOf[t] \in Int /\ DayOf[t] <= DayOf[win[r].e]
    BY LoopFacts DEF KeptIsCached
  <2>2. ASSUME NEW t \in kept[r], LastDay(r)
        PROVE  DayOf[t] = day[r] \/ DayOf[t] < day[r]
    <3>1. day[r] \in Int /\ DayOf[t] \in Int /\ DayOf[t] <= day[r]
      BY <2>1, <2>2, LoopFacts DEF LastDay
    <3>2. QED
      BY <3>1, UpToHere
  <2>3. LastDay(r) => kept[r] \subseteq live'[r]
    BY <1>2, <2>1, <2>2 DEF ReadDay
  <2>4. QED
    BY <1>2, <2>3 DEF ReadDay, NoLiveBars, NoBackfillSeries
<1>3. ASSUME NEW r \in Req, CoverDay(r) PROVE PartialsRetained'
  BY <1>3 DEF CoverDay, NoBackfillSeries
<1>4. ASSUME NEW r \in Req, CheckMiss(r) PROVE PartialsRetained'
  BY <1>4 DEF CheckMiss, Unmarked, NoBackfillSeries
<1>5. ASSUME NEW r \in Req, DropLegacy(r) PROVE PartialsRetained'
  BY <1>5 DEF DropLegacy, Unmarked, Mark, Observe, NoBackfillSeries
<1>6. ASSUME NEW r \in Req,
           \/ FetchNothing(r) \/ FetchBars(r) \/ TxWatch(r)
           \/ TxGet(r) \/ TxRetry(r)
    PROVE  PartialsRetained'
  BY <1>6 DEF FetchNothing, FetchBars, TxWatch, TxGet, TxRetry, NoBackfillSeries
<1>7. ASSUME NEW r \in Req, TxExec(r) PROVE PartialsRetained'
  BY <1>7 DEF TxExec, Store, Observe, NoBackfillSeries
<1>8. ASSUME NEW r \in Req, RereadDay(r) \/ RecoverDay(r) PROVE PartialsRetained'
  BY <1>8 DEF RereadDay, RecoverDay, NoBackfillSeries
<1>9. ASSUME NEW r \in Req, SyncMiss(r) PROVE PartialsRetained'
  BY <1>9 DEF SyncMiss, Mark, Observe, FinalAnswer, NoBackfillSeries
<1>10. ASSUME NEW r \in Req, Fail(r) \/ Return(r) PROVE PartialsRetained'
  BY <1>10 DEF Fail, Return, NoBackfillSeries
<1>11. ASSUME NEW u \in Writers, UpsertGet(u) PROVE PartialsRetained'
  BY <1>11 DEF UpsertGet, NoBackfillSeries
<1>12. ASSUME NEW u \in Writers,
           \/ UpsertSet(u) \/ SetLiveBarsDay(u)
    PROVE  PartialsRetained'
  BY <1>12 DEF UpsertSet, SetLiveBarsDay, Store, Observe, NoBackfillSeries
<1>13. ASSUME NEW d \in Days, ExpireDay(d) PROVE PartialsRetained'
  BY <1>13 DEF ExpireDay, Store, Observe, NoBackfillSeries
<1>14. ASSUME NEW w \in marked \cup legacy, ExpireMiss(w) PROVE PartialsRetained'
  BY <1>14 DEF ExpireMiss, Mark, Observe, NoBackfillSeries
<1>15. CASE UNCHANGED vars
  BY <1>15 DEF vars, NoBackfillSeries
<1>16. QED
  BY <1>1, <1>2, <1>3, <1>4, <1>5, <1>6, <1>7, <1>8, <1>9, <1>10, <1>11, <1>12,
     <1>13, <1>14, <1>15
  DEF Next, Request, Proceed

-----------------------------------------------------------------------------
(* The inductive invariant holds of every behaviour.                       *)
THEOREM Invariance == Spec => []IInv
<1>1. IInv /\ [Next]_vars => IInv'
  BY TypeStep, LoopDaysStep, FreshSnapshotStep, KeptStep, HeldStep, SpannedStep,
     ReadSoFarStep, MissStep, EarlyStep, PartialsStep
  DEF IInv
<1>2. QED
  BY InitInv, <1>1, PTL DEF Spec

(* Type correctness: in particular a day's key only ever holds bars of that *)
(* day (the day filter of _merged_live_bars_day_payload).                  *)
THEOREM TypeCorrect == Spec => []TypeOK
BY Invariance, PTL DEF IInv

(* No answer loses a bar that stayed cached while the request ran, for any *)
(* number of requests, whatever get_price_history does.                    *)
THEOREM PartialsAreRetained == Spec => []PartialsRetained
BY Invariance, PTL DEF IInv

(* An active miss marker keeps a request away from Schwab.                 *)
THEOREM MarkerSuppresses == Spec => []MissSuppressesBackfill
BY Invariance, PTL DEF IInv

(* A window that stays covered is answered from the cache.                 *)
THEOREM CoveredWindows == Spec => []CoveredNeedsNoBackfill
<1>1. IInv => CoveredNeedsNoBackfill
  BY DEF IInv, SpannedAnswersEarly, CoveredNeedsNoBackfill, Backfilling
<1>2. QED
  BY Invariance, <1>1, PTL

(* No step of a request takes a bar out of the cache: an EXEC that succeeds *)
(* writes over exactly the blob its transaction has read.                  *)
THEOREM MergesKeepBars == Spec => BackfillKeepsBars
<1> DEFINE Keeps == \A r \in Req : pc'[r] # pc[r] =>
                       \A d \in Days : blob[d] \subseteq blob'[d]
<1>1. IInv /\ [Next]_vars => [Keeps]_vars
  <2> SUFFICES ASSUME IInv, Next PROVE Keeps
    OBVIOUS
  <2>1. ASSUME NEW r \in Req, Request(r), ~TxExec(r) PROVE blob' = blob
    BY <2>1 DEF Request, Arrive, Start, StartNow, Begin, Proceed, ReadDay,
                CoverDay, CheckMiss, DropLegacy, FetchNothing, FetchBars, TxWatch, TxGet,
                TxRetry, RereadDay, RecoverDay, SyncMiss, Fail, Return, Mark,
                ReadsOnly, cache
  <2>2. ASSUME NEW r \in Req, TxExec(r)
        PROVE  \A d \in Days : blob[d] \subseteq blob'[d]
    BY <2>2 DEF IInv, TypeOK, FreshSnapshot, TxExec, Conflict, MergedDay, Store
  <2>3. ASSUME NEW u \in Writers, UpsertGet(u) \/ UpsertSet(u) \/ SetLiveBarsDay(u)
        PROVE  pc' = pc
    BY <2>3 DEF UpsertGet, UpsertSet, SetLiveBarsDay
  <2>4. ASSUME NEW d \in Days, ExpireDay(d) PROVE pc' = pc
    BY <2>4 DEF ExpireDay
  <2>5. ASSUME NEW w \in marked \cup legacy, ExpireMiss(w) PROVE pc' = pc
    BY <2>5 DEF ExpireMiss
  <2>6. QED
    BY <2>1, <2>2, <2>3, <2>4, <2>5 DEF Next
<1>2. QED
  BY Invariance, <1>1, PTL DEF Spec, BackfillKeepsBars

-----------------------------------------------------------------------------
(* LiveBars implements BarStore: what a step may do to a request and to the *)
(* store, and that BarStore allows it.                                     *)

\* A step in which request q neither comes, is answered, fails nor leaves.
Calm(q) ==
    /\ Phase(pc'[q]) = Phase(pc[q]) /\ win'[q] = win[q] /\ answer'[q] = answer[q]
    /\ live'[q] \subseteq live[q] \cup Cached(win[q], blob)
    /\ out'[q] \subseteq out[q] \cup Cached(win[q], blob)
    /\ pc[q] = "idle" => live'[q] = live[q] /\ out'[q] = out[q]

\* A step that only changes what is cached, if anything.
AllCalm ==
    /\ env' = env
    /\ \A q \in Req : /\ Calm(q)
                      /\ kept'[q] = {t \in kept[q] : t \in blob'[DayOf[t]]}

\* A step that only concerns request r.
Alone(r) ==
    /\ env' = env /\ blob' = blob
    /\ \A q \in Req : q # r => Calm(q) /\ kept'[q] = kept[q]

Comes(r) ==
    /\ Alone(r) /\ pc[r] = "idle" /\ pc'[r] = "read"
    /\ kept'[r] = Cached(win'[r], blob)
    /\ live'[r] = {} /\ out'[r] = {} /\ answer'[r] = answer[r]

Replies(r) ==
    /\ Alone(r) /\ Phase(pc[r]) = "asking" /\ pc'[r] = "done"
    /\ win'[r] = win[r] /\ kept'[r] = kept[r]
    /\ live'[r] \subseteq live[r] \cup Cached(win[r], blob)
    /\ out'[r] = out[r]
    /\ answer'[r] \subseteq live[r] \cup out[r]
    /\ kept[r] \subseteq answer'[r] \/ answer'[r] = {}

Fails(r) ==
    /\ Alone(r) /\ Phase(pc[r]) = "asking" /\ pc'[r] = "failed"
    /\ UNCHANGED <<win[r], kept[r], live[r], out[r], answer[r]>>

Leaves(r) ==
    /\ Alone(r) /\ pc[r] \in {"done", "failed"} /\ pc'[r] = "idle"
    /\ kept'[r] = {} /\ live'[r] = {} /\ out'[r] = {} /\ answer'[r] = {}

Kinds == AllCalm \/ \E r \in Req : Comes(r) \/ Replies(r) \/ Fails(r) \/ Leaves(r)

\* Reading a day's blob finds bars of the window that are cached.
LEMMA ReadIsCached ==
    ASSUME TypeOK, NEW r \in Req
    PROVE  blob[day[r]] \cap InWindow(win[r]) \subseteq Cached(win[r], blob)
BY DEF TypeOK, OnDay, Cached, InWindow

\* A step that writes no bar loses none.
LEMMA KeptStays ==
    ASSUME KeptIsCached, blob' = blob, kept' = kept
    PROVE  \A q \in Req : kept'[q] = {t \in kept[q] : t \in blob'[DayOf[t]]}
BY DEF KeptIsCached

\* Observe sees what is gone, and nothing is when only markers change.
LEMMA MarkKeeps ==
    ASSUME TypeOK, KeptIsCached, NEW m, NEW l, Mark(m, l)
    PROVE  /\ blob' = blob
           /\ \A q \in Req : kept'[q] = kept[q]
           /\ \A q \in Req : kept'[q] = {t \in kept[q] : t \in blob'[DayOf[t]]}
BY DEF Mark, Observe, KeptIsCached

\* A step of one request changes nothing of the others'.
LEMMA OthersCalm ==
    ASSUME IInv, NEW r \in Req, Proceed(r) \/ Fail(r)
    PROVE  env' = env /\ \A q \in Req : q # r => Calm(q)
<1>1. TypeOK BY DEF IInv
<1>2. ASSUME NEW q \in Req, q # r
      PROVE  /\ pc'[q] = pc[q] /\ win'[q] = win[q] /\ answer'[q] = answer[q]
             /\ live'[q] = live[q] /\ out'[q] = out[q]
  BY <1>1, <1>2 DEF Proceed, Fail, TypeOK, ReadDay, NoLiveBars, CoverDay, CheckMiss, Unmarked,
       DropLegacy, FetchNothing, FetchBars, TxWatch, TxGet, TxRetry, TxExec, RereadDay, RecoverDay,
       SyncMiss, Goto, Reply, ReadsOnly, cache, locals, writer
<1>3. env' = env
  BY <1>1 DEF Proceed, Fail, ReadDay, CoverDay, CheckMiss, DropLegacy, FetchNothing, FetchBars,
       TxWatch, TxGet, TxRetry, TxExec, RereadDay, RecoverDay, SyncMiss
<1> QED BY <1>2, <1>3 DEF Calm

\* The steps of a request that read, or only move on.
LEMMA ReaderKinds ==
    ASSUME IInv, NEW r \in Req,
           \/ ReadDay(r) \/ CoverDay(r) \/ CheckMiss(r) \/ FetchNothing(r) \/ FetchBars(r)
           \/ TxWatch(r) \/ TxGet(r) \/ TxRetry(r) \/ RereadDay(r) \/ RecoverDay(r)
    PROVE  Kinds
<1>1. TypeOK /\ KeptIsCached /\ ReadSoFar BY DEF IInv
<1>2. env' = env /\ \A q \in Req : q # r => Calm(q) BY OthersCalm DEF Proceed
<1>3. blob' = blob /\ kept' = kept
  BY DEF ReadDay, CoverDay, CheckMiss, FetchNothing, FetchBars, TxWatch, TxGet, TxRetry,
         RereadDay, RecoverDay, ReadsOnly, cache
<1>4. \A q \in Req : kept'[q] = {t \in kept[q] : t \in blob'[DayOf[t]]}
  BY <1>1, <1>3, KeptStays
<1>5. SUFFICES Calm(r) \/ Replies(r)
  BY <1>2, <1>3, <1>4 DEF Kinds, AllCalm
<1>6. Alone(r) BY <1>2, <1>3 DEF Alone
<1> USE <1>1
<1>7. CASE ReadDay(r)
  <2>1. live'[r] \subseteq live[r] \cup Cached(win[r], blob)
    BY <1>7, ReadIsCached DEF ReadDay, TypeOK
  <2>2. /\ win'[r] = win[r] /\ out'[r] = out[r] /\ kept'[r] = kept[r] /\ pc[r] = "read"
        /\ \/ pc'[r] \in {"read", "cover", "miss2"} /\ answer'[r] = answer[r]
           \/ pc'[r] = "done" /\ answer'[r] = {}
    BY <1>3, <1>7 DEF ReadDay, NoLiveBars, Goto, Reply, TypeOK
  <2> QED BY <1>6, <2>1, <2>2 DEF Calm, Replies, Phase
<1>8. CASE CoverDay(r)
  <2>1. /\ win'[r] = win[r] /\ live'[r] = live[r] /\ out'[r] = out[r] /\ kept'[r] = kept[r]
        /\ pc[r] = "cover"
        /\ \/ pc'[r] \in {"cover", "miss1"} /\ answer'[r] = answer[r]
           \/ pc'[r] = "done" /\ answer'[r] = live[r]
    BY <1>3, <1>8 DEF CoverDay, Goto, Reply, TypeOK
  <2>2. kept[r] \subseteq live[r] BY <2>1 DEF ReadSoFar
  <2> QED BY <1>6, <2>1, <2>2 DEF Calm, Replies, Phase
<1>9. CASE CheckMiss(r)
  <2>1. /\ win'[r] = win[r] /\ live'[r] = live[r] /\ out'[r] = out[r] /\ kept'[r] = kept[r]
        /\ pc[r] \in {"miss1", "miss2"}
        /\ \/ pc'[r] \in {"miss2", "fetch", "drop1", "drop2"} /\ answer'[r] = answer[r]
           \/ pc'[r] = "done" /\ answer'[r] \in {live[r], {}}
    BY <1>3, <1>9 DEF CheckMiss, Unmarked, Goto, Reply, TypeOK, locals
  <2>2. kept[r] \subseteq live[r] BY <2>1 DEF ReadSoFar
  <2> QED BY <1>6, <2>1, <2>2 DEF Calm, Replies, Phase
<1>10. CASE FetchNothing(r) \/ FetchBars(r)
  <2>1. /\ win'[r] = win[r] /\ live'[r] = live[r] /\ out'[r] = out[r] /\ answer'[r] = answer[r]
        /\ pc[r] = "fetch" /\ pc'[r] \in {"recover", "watch"}
    BY <1>10 DEF FetchNothing, FetchBars, Goto, TypeOK
  <2> QED BY <2>1 DEF Calm, Phase
<1>11. CASE TxWatch(r) \/ TxGet(r) \/ TxRetry(r)
  <2>1. /\ win'[r] = win[r] /\ live'[r] = live[r] /\ out'[r] = out[r] /\ answer'[r] = answer[r]
        /\ pc[r] \in {"watch", "get", "exec"} /\ pc'[r] \in {"watch", "get", "exec"}
    BY <1>11 DEF TxWatch, TxGet, TxRetry, Goto, TypeOK, locals
  <2> QED BY <2>1 DEF Calm, Phase
<1>12. CASE RereadDay(r)
  <2>1. out'[r] \subseteq out[r] \cup Cached(win[r], blob)
    BY <1>12, ReadIsCached DEF RereadDay, TypeOK
  <2>2. /\ win'[r] = win[r] /\ live'[r] = live[r] /\ answer'[r] = answer[r]
        /\ pc[r] = "reread" /\ pc'[r] \in {"reread", "recover"}
    BY <1>12 DEF RereadDay, Goto, TypeOK
  <2> QED BY <2>1, <2>2 DEF Calm, Phase
<1>13. CASE RecoverDay(r)
  <2>1. /\ win'[r] = win[r] /\ live'[r] = live[r] /\ out'[r] = out[r] /\ answer'[r] = answer[r]
        /\ pc[r] = "recover" /\ pc'[r] \in {"recover", "clear", "mark"}
    BY <1>13 DEF RecoverDay, Goto, TypeOK
  <2> QED BY <2>1 DEF Calm, Phase
<1> QED BY <1>7, <1>8, <1>9, <1>10, <1>11, <1>12, <1>13

\* The steps of a request that write: markers, and the merge of a day.
LEMMA WriterKinds ==
    ASSUME IInv, NEW r \in Req, DropLegacy(r) \/ SyncMiss(r) \/ TxExec(r)
    PROVE  Kinds
<1>1. TypeOK /\ KeptIsCached /\ ReadSoFar BY DEF IInv
<1>2. env' = env /\ \A q \in Req : q # r => Calm(q) BY OthersCalm DEF Proceed
<1> USE <1>1
<1>3. ASSUME DropLegacy(r) \/ SyncMiss(r) PROVE Kinds
  <2>1. PICK m, l : Mark(m, l) BY <1>3 DEF DropLegacy, SyncMiss
  <2>2. /\ blob' = blob
        /\ \A q \in Req : kept'[q] = kept[q]
        /\ \A q \in Req : kept'[q] = {t \in kept[q] : t \in blob'[DayOf[t]]}
    BY <2>1, MarkKeeps
  <2>3. Alone(r) BY <1>2, <2>2 DEF Alone
  <2>4. win'[r] = win[r] /\ live'[r] = live[r] /\ out'[r] = out[r]
    BY <1>3 DEF DropLegacy, SyncMiss, locals
  <2>5. \/ /\ pc[r] \in {"drop1", "drop2"} /\ pc'[r] \in {"miss2", "fetch"}
           /\ answer'[r] = answer[r]
        \/ /\ pc[r] \in {"drop1", "drop2"} /\ pc'[r] = "done" /\ answer'[r] = {}
        \/ /\ pc[r] \in {"mark", "clear"} /\ pc'[r] = "done"
           /\ answer'[r] = IF out[r] # {} THEN out[r] ELSE live[r]
    BY <1>3 DEF DropLegacy, SyncMiss, Unmarked, Goto, Reply, FinalAnswer, TypeOK
  <2>6. pc[r] \in {"mark", "clear"} =>
            kept[r] \subseteq live[r] /\ (out[r] = {} \/ kept[r] \subseteq out[r])
    BY DEF ReadSoFar, Backfilling
  <2>7. Calm(r) \/ Replies(r) BY <2>2, <2>3, <2>4, <2>5, <2>6 DEF Calm, Replies, Phase
  <2> QED BY <1>2, <2>2, <2>7 DEF Kinds, AllCalm
<1>4. ASSUME TxExec(r) PROVE Kinds
  <2>1. /\ win'[r] = win[r] /\ live'[r] = live[r] /\ out'[r] = out[r] /\ answer'[r] = answer[r]
        /\ pc[r] = "exec" /\ pc'[r] \in {"watch", "reread"}
    BY <1>4 DEF TxExec, Goto, TypeOK
  <2>2. Calm(r) BY <2>1 DEF Calm, Phase
  <2>3. Observe(blob', marked) BY <1>4 DEF TxExec, Store
  <2>4. \A q \in Req : kept'[q] = {t \in kept[q] : t \in blob'[DayOf[t]]}
    BY <2>3 DEF Observe, TypeOK
  <2> QED BY <1>2, <2>2, <2>4 DEF Kinds, AllCalm
<1> QED BY <1>3, <1>4

\* Requests that come, fail and leave.
LEMMA BoundaryKinds ==
    ASSUME IInv, NEW r \in Req, Arrive(r) \/ Fail(r) \/ Return(r)
    PROVE  Kinds
<1>1. TypeOK /\ KeptIsCached /\ ReadSoFar BY DEF IInv
<1> USE <1>1
<1>2. ASSUME Arrive(r) PROVE Kinds
  <2>1. PICK w \in Window : Begin(r, w) BY <1>2, Arrivals
  <2>2. /\ env' = env /\ blob' = blob
        /\ \A q \in Req : q # r => kept'[q] = kept[q] /\ Calm(q)
    BY <2>1 DEF Begin, Goto, cache, TypeOK, Calm
  <2>3. /\ pc[r] = "idle" /\ pc'[r] = "read"
        /\ live'[r] = {} /\ out'[r] = {} /\ answer'[r] = answer[r] /\ win'[r] = w
        /\ kept'[r] = {t \in InWindow(w) : t \in blob[DayOf[t]]}
    BY <2>1 DEF Begin, Goto, TypeOK
  <2> QED BY <2>2, <2>3 DEF Kinds, Comes, Alone, Cached
<1>3. ASSUME Fail(r) PROVE Kinds
  <2>1. env' = env /\ \A q \in Req : q # r => Calm(q) BY <1>3, OthersCalm
  <2>2. blob' = blob /\ kept' = kept BY <1>3 DEF Fail, ReadsOnly, cache
  <2>3. /\ win'[r] = win[r] /\ live'[r] = live[r] /\ out'[r] = out[r] /\ answer'[r] = answer[r]
        /\ pc[r] \notin {"idle", "done", "failed"} /\ pc'[r] = "failed"
    BY <1>3 DEF Fail, Goto, locals, TypeOK
  <2> QED BY <2>1, <2>2, <2>3 DEF Kinds, Fails, Alone, Phase
<1>4. ASSUME Return(r) PROVE Kinds
  <2>1. /\ env' = env /\ blob' = blob
        /\ \A q \in Req : q # r => kept'[q] = kept[q] /\ Calm(q)
    BY <1>4 DEF Return, cache, TypeOK, Calm
  <2>2. /\ pc[r] \in {"done", "failed"} /\ pc'[r] = "idle"
        /\ kept'[r] = {} /\ live'[r] = {} /\ out'[r] = {} /\ answer'[r] = {}
    BY <1>4 DEF Return, TypeOK
  <2> QED BY <2>1, <2>2 DEF Kinds, Leaves, Alone
<1> QED BY <1>2, <1>3, <1>4

\* Other writers, and the TTLs.
LEMMA OutsideKinds ==
    ASSUME IInv,
           \/ \E u \in Writers : UpsertGet(u) \/ UpsertSet(u) \/ SetLiveBarsDay(u)
           \/ \E d \in Days : ExpireDay(d)
           \/ \E w \in marked \cup legacy : ExpireMiss(w)
    PROVE  Kinds
<1>1. TypeOK /\ KeptIsCached /\ ReadSoFar BY DEF IInv
<1>2. env' = env /\ pc' = pc /\ win' = win /\ live' = live /\ out' = out /\ answer' = answer
  BY DEF UpsertGet, UpsertSet, SetLiveBarsDay, ExpireDay, ExpireMiss, locals
<1>3. \A q \in Req : Calm(q) BY <1>2 DEF Calm
<1>4. \/ blob' = blob /\ kept' = kept
      \/ \E m : Observe(blob', m)
  BY DEF UpsertGet, UpsertSet, SetLiveBarsDay, ExpireDay, ExpireMiss, ReadsOnly, cache,
         Store, Mark
<1>5. \A q \in Req : kept'[q] = {t \in kept[q] : t \in blob'[DayOf[t]]}
  BY <1>1, <1>4, KeptStays DEF Observe, TypeOK
<1> QED BY <1>2, <1>3, <1>5 DEF Kinds, AllCalm

LEMMA StepKinds == IInv /\ Next => Kinds
BY ReaderKinds, WriterKinds, BoundaryKinds, OutsideKinds DEF Next, Request, Proceed

\* What a look adds, and that there is nothing to add as long as no bar comes.
LEMMA LookOf ==
    ASSUME Look, NEW q \in Req
    PROVE  seen'[q] = IF pc'[q] = "idle" THEN {} ELSE seen[q] \cup Cached(win'[q], blob')
BY DEF Look

LEMMA CalmSeen ==
    ASSUME Look, NEW q \in Req, SeenBy(q), Calm(q), kept'[q] \subseteq kept[q]
    PROVE  /\ SeenBy(q)'
           /\ seen'[q] = IF pc[q] = "idle" THEN {} ELSE seen[q] \cup Cached(win[q], blob')
           /\ blob' = blob => seen'[q] = seen[q]
<1>1. (pc'[q] = "idle") = (pc[q] = "idle") BY DEF Calm, Phase
<1>2. win'[q] = win[q] /\ answer'[q] = answer[q] BY DEF Calm
<1>3. seen'[q] = IF pc[q] = "idle" THEN {} ELSE seen[q] \cup Cached(win[q], blob')
  BY <1>1, <1>2, LookOf
<1>4. CASE pc[q] = "idle"
  <2>1. /\ seen[q] = {} /\ kept[q] = {} /\ answer[q] = {} /\ live[q] = {} /\ out[q] = {}
        /\ live'[q] = live[q] /\ out'[q] = out[q]
    BY <1>4 DEF SeenBy, Calm
  <2> QED BY <1>1, <1>2, <1>3, <1>4, <2>1 DEF SeenBy
<1>5. CASE pc[q] # "idle"
  <2>1. /\ Cached(win[q], blob) \subseteq seen[q] /\ live[q] \cup out[q] \cup answer[q] \subseteq seen[q]
        /\ live'[q] \subseteq live[q] \cup Cached(win[q], blob)
        /\ out'[q] \subseteq out[q] \cup Cached(win[q], blob)
    BY <1>5 DEF SeenBy, Calm
  <2> QED BY <1>1, <1>2, <1>3, <1>5, <2>1 DEF SeenBy
<1> QED BY <1>4, <1>5

\* A step of one request leaves the history of the others alone.
LEMMA AloneSeen ==
    ASSUME Look, ListsSeen, NEW r \in Req, Alone(r)
    PROVE  \A q \in Req : q # r => SeenBy(q)' /\ seen'[q] = seen[q]
BY CalmSeen DEF ListsSeen, Alone

\* Looks keep to bars of the windows.
LEMMA SeenTyped ==
    ASSUME Look, ListsSeen
    PROVE  seen' \in [Req -> SUBSET Times]
BY DEF Look, ListsSeen, Cached, InWindow

LEMMA SeenStep ==
    ASSUME ListsSeen, Kinds, Look
    PROVE  ListsSeen'
<1>1. SUFFICES \A q \in Req : SeenBy(q)' BY SeenTyped DEF ListsSeen
<1>2. CASE AllCalm BY <1>2, CalmSeen DEF AllCalm, ListsSeen
<1>3. ASSUME NEW r \in Req, Comes(r) \/ Replies(r) \/ Fails(r) \/ Leaves(r) PROVE SeenBy(r)'
  <2>1. SeenBy(r) BY DEF ListsSeen
  <2>2. blob' = blob BY <1>3 DEF Comes, Replies, Fails, Leaves, Alone
  <2>3. seen'[r] = IF pc'[r] = "idle" THEN {} ELSE seen[r] \cup Cached(win'[r], blob)
    BY <2>2, LookOf
  <2>4. CASE Comes(r) BY <2>1, <2>2, <2>3, <2>4 DEF Comes, SeenBy
  <2>5. CASE Replies(r)
    <3>1. pc[r] # "idle" /\ pc'[r] = "done" BY <2>5 DEF Replies, Phase
    <3> QED BY <2>1, <2>2, <2>3, <2>5, <3>1 DEF Replies, SeenBy
  <2>6. CASE Fails(r)
    <3>1. pc[r] # "idle" /\ pc'[r] = "failed" BY <2>6 DEF Fails, Phase
    <3> QED BY <2>1, <2>2, <2>3, <2>6, <3>1 DEF Fails, SeenBy
  <2>7. CASE Leaves(r) BY <2>2, <2>3, <2>7 DEF Leaves, SeenBy
  <2> QED BY <1>3, <2>4, <2>5, <2>6, <2>7
<1>4. ASSUME NEW r \in Req, Comes(r) \/ Replies(r) \/ Fails(r) \/ Leaves(r), NEW q \in Req
      PROVE  SeenBy(q)'
  BY <1>3, <1>4, AloneSeen DEF Comes, Replies, Fails, Leaves
<1> QED BY <1>2, <1>4 DEF Kinds

LEMMA SeenInit == ReadInit => ListsSeen
BY DEF ReadInit, Init, ListsSeen, SeenBy

LEMMA SeenStutter == ListsSeen /\ UNCHANGED readVars => ListsSeen'
BY DEF readVars, vars, cache, locals, ListsSeen, SeenBy

\* How a request comes to a check of coverage: after its last read, or from
\* the check of the day before, which was covered.
LEMMA CoverMoves ==
    ASSUME IInv, Next, NEW q \in Req, pc'[q] # "idle"
    PROVE  \/ pc[q] = "idle" /\ pc'[q] = "read"
           \/ /\ pc[q] # "idle" /\ win'[q] = win[q]
              /\ pc'[q] = "cover" =>
                    \/ day'[q] = DayOf[win[q].s]
                    \/ pc[q] = "cover" /\ day'[q] = day[q]
                    \/ pc[q] = "cover" /\ day'[q] = day[q] + 1 /\ CoveredToday(q)
<1>1. TypeOK BY DEF IInv
<1>2. ASSUME NEW r \in Req, Arrive(r) PROVE pc[r] = "idle" /\ pc'[r] = "read"
             /\ \A p \in Req : p # r => /\ pc'[p] = pc[p] /\ win'[p] = win[p]
                                       /\ day'[p] = day[p]
  BY <1>1, <1>2 DEF Arrive, Start, StartNow, Begin, Goto, TypeOK
<1>3. ASSUME NEW r \in Req, Return(r) PROVE pc'[r] = "idle"
             /\ \A p \in Req : p # r => /\ pc'[p] = pc[p] /\ win'[p] = win[p]
                                       /\ day'[p] = day[p]
  BY <1>1, <1>3 DEF Return, TypeOK
<1>4. ASSUME NEW r \in Req, Proceed(r) \/ Fail(r)
      PROVE  /\ win'[r] = win[r] /\ pc[r] # "idle"
             /\ \A p \in Req : p # r => /\ pc'[p] = pc[p] /\ win'[p] = win[p]
                                       /\ day'[p] = day[p]
  BY <1>1, <1>4 DEF Proceed, Fail, TypeOK, ReadDay, CoverDay, CheckMiss, Unmarked, NoLiveBars,
       DropLegacy, FetchNothing, FetchBars, TxWatch, TxGet, TxRetry, TxExec, RereadDay,
       RecoverDay, SyncMiss, Goto, Reply, locals
<1>5. ASSUME NEW r \in Req, Proceed(r) \/ Fail(r), ~ReadDay(r), ~CoverDay(r)
      PROVE  pc'[r] # "cover"
  BY <1>1, <1>5 DEF Proceed, Fail, TypeOK, CheckMiss, Unmarked, DropLegacy, FetchNothing,
       FetchBars, TxWatch, TxGet, TxRetry, TxExec, RereadDay, RecoverDay, SyncMiss, Goto, Reply
<1>6. ASSUME NEW r \in Req, ReadDay(r), pc'[r] = "cover" PROVE day'[r] = DayOf[win[r].s]
  BY <1>1, <1>6 DEF ReadDay, NoLiveBars, Goto, Reply, TypeOK
<1>7. ASSUME NEW r \in Req, CoverDay(r), pc'[r] = "cover"
      PROVE  pc[r] = "cover" /\ day'[r] = day[r] + 1 /\ CoveredToday(r)
  BY <1>1, <1>7 DEF CoverDay, NextDay, Goto, Reply, TypeOK
<1>8. ASSUME \/ \E u \in Writers : UpsertGet(u) \/ UpsertSet(u) \/ SetLiveBarsDay(u)
             \/ \E d \in Days : ExpireDay(d)
             \/ \E w \in marked \cup legacy : ExpireMiss(w)
      PROVE  pc' = pc /\ win' = win /\ day' = day
  BY <1>8 DEF UpsertGet, UpsertSet, SetLiveBarsDay, ExpireDay, ExpireMiss, locals
<1>9. CASE \E r \in Req : Request(r)
  BY <1>1, <1>2, <1>3, <1>4, <1>5, <1>6, <1>7, <1>9 DEF Request
<1> QED BY <1>8, <1>9 DEF Next

\* A day that is bare has not been checked yet, and is not covered now.
LEMMA BareStep ==
    ASSUME IInv, BareAhead, Next, Look
    PROVE  BareAhead'
<1> SUFFICES ASSUME NEW q \in Req, pc'[q] # "idle"
             PROVE  /\ \A d \in bare'[q] : /\ d \in Span(win'[q])
                                           /\ ~DayCovered(env'.tf, blob', win'[q], d)
                    /\ pc'[q] = "cover" => \A d \in bare'[q] : day'[q] <= d
  BY DEF BareAhead, Span, DayCovered
<1>1. bare'[q] = StillBare(q) BY DEF Look
<1>2. env' = env
  BY DEF Next, Request, Arrive, Start, StartNow, Begin, Proceed, ReadDay, CoverDay, CheckMiss,
         DropLegacy, FetchNothing, FetchBars, TxWatch, TxGet, TxRetry, TxExec, RereadDay,
         RecoverDay, SyncMiss, Fail, Return, UpsertGet, UpsertSet, SetLiveBarsDay, ExpireDay,
         ExpireMiss
<1>3. CASE pc[q] = "idle"
  <2>1. pc'[q] = "read" BY <1>3, CoverMoves
  <2> QED BY <1>1, <1>2, <1>3, <2>1 DEF StillBare
<1>4. CASE pc[q] # "idle"
  <2>1. /\ win'[q] = win[q]
        /\ pc'[q] = "cover" =>
              \/ day'[q] = DayOf[win[q].s]
              \/ pc[q] = "cover" /\ day'[q] = day[q]
              \/ pc[q] = "cover" /\ day'[q] = day[q] + 1 /\ CoveredToday(q)
    BY <1>4, CoverMoves
  <2>2. \A d \in bare'[q] : /\ d \in bare[q]
                            /\ ~DayCovered(env.tf, blob', win'[q], d)
    BY <1>1, <1>4 DEF StillBare
  <2>3. \A d \in bare[q] : /\ d \in Span(win[q])
                           /\ ~DayCovered(env.tf, blob, win[q], d)
    BY <1>4 DEF BareAhead
  <2>4. \A d \in Span(win[q]) : d \in Int /\ DayOf[win[q].s] <= d BY DEF Span
  <2>5. ASSUME pc'[q] = "cover", NEW d \in bare'[q] PROVE day'[q] <= d
    <3>1. d \in bare[q] /\ d \in Int /\ DayOf[win[q].s] <= d BY <2>2, <2>3, <2>4
    <3>2. pc[q] = "cover" => day[q] <= d BY <3>1 DEF BareAhead
    <3>3. CoveredToday(q) => d # day[q] BY <2>3, <3>1 DEF CoveredToday
    <3>4. day[q] \in Int BY DayFacts DEF IInv, TypeOK
    <3> QED BY <2>1, <2>5, <3>1, <3>2, <3>3, <3>4
  <2> QED BY <1>2, <2>1, <2>2, <2>3, <2>5
<1> QED BY <1>3, <1>4

LEMMA BareStutter == BareAhead /\ UNCHANGED readVars => BareAhead'
BY DEF readVars, vars, cache, locals, BareAhead, Span, DayCovered

LEMMA BareInit == ReadInit => BareAhead
BY DEF ReadInit, Init, BareAhead

\* ReadSpec only watches: it is LiveBars with histories.
LEMMA ReadInvariance == ReadSpec => Spec /\ []IInv /\ []ListsSeen /\ []BareAhead
<1>1. ReadInit => Init BY DEF ReadInit
<1>2. [ReadNext]_readVars => [Next]_vars BY DEF ReadNext, readVars
<1>3. IInv /\ ListsSeen /\ [ReadNext]_readVars => ListsSeen'
  BY StepKinds, SeenStep, SeenStutter DEF ReadNext
<1>4. IInv /\ BareAhead /\ [ReadNext]_readVars => BareAhead'
  BY BareStep, BareStutter DEF ReadNext
<1> QED BY <1>1, <1>2, <1>3, <1>4, SeenInit, BareInit, Invariance, PTL DEF ReadSpec, Spec

\* How a request is answered that has not asked Schwab.
LEMMA EarlyAnswers ==
    ASSUME IInv, Next, NEW r \in Req, pc[r] \notin Backfilling \cup {"done"}, pc'[r] = "done",
           env.live, ~NoBackfillSeries, win[r] \notin marked
    PROVE  pc[r] = "cover" /\ CoveredToday(r) /\ LastDay(r)
<1>1. TypeOK BY DEF IInv
<1>2. \/ ReadDay(r) \/ CoverDay(r) \/ CheckMiss(r) \/ DropLegacy(r)
  <2>1. PICK q \in Req : Request(q)
    BY <1>1 DEF Next, UpsertGet, UpsertSet, SetLiveBarsDay, ExpireDay, ExpireMiss
  <2>2. q = r
    BY <1>1, <2>1, OthersCalm DEF Request, Arrive, Start, StartNow, Begin, Goto, Return, Calm,
       Phase, TypeOK
  <2>3. ~Arrive(r) /\ ~Fail(r) /\ ~Return(r)
    BY <1>1 DEF Arrive, Start, StartNow, Begin, Fail, Return, Goto, TypeOK
  <2> QED BY <2>1, <2>2, <2>3 DEF Request, Proceed, Backfilling, FetchNothing, FetchBars, TxWatch,
       TxGet, TxRetry, TxExec, RereadDay, RecoverDay, SyncMiss
<1>3. ~ReadDay(r) BY <1>1 DEF ReadDay, NoLiveBars, Goto, Reply, TypeOK
<1>4. ~CheckMiss(r) BY <1>1 DEF CheckMiss, MissActive, Unmarked, Goto, Reply, TypeOK
<1>5. ~DropLegacy(r) BY <1>1 DEF DropLegacy, Unmarked, Goto, Reply, TypeOK
<1>6. CoverDay(r) BY <1>2, <1>3, <1>4, <1>5
<1> QED BY <1>1, <1>6 DEF CoverDay, Goto, Reply, TypeOK

(* What equity requests answer without Schwab and without a marker was       *)
(* covered, day by day, while they ran, whoever wrote to the cache meanwhile.*)
THEOREM UncoveredAreBackfilled == ReadSpec => UncoveredIsBackfilled
<1> DEFINE Asks == \A r \in Req :
          (/\ pc[r] \notin Backfilling \cup {"done"} /\ pc'[r] = "done"
           /\ env.live /\ ~NoBackfillSeries
           /\ win[r] \notin marked) => bare[r] = {}
<1>1. IInv /\ BareAhead /\ [ReadNext]_readVars => [Asks]_readVars
  <2> SUFFICES ASSUME IInv, BareAhead, Next, NEW r \in Req,
                      pc[r] \notin Backfilling \cup {"done"}, pc'[r] = "done",
                      env.live, ~NoBackfillSeries, win[r] \notin marked
               PROVE  bare[r] = {}
    BY DEF ReadNext
  <2>1. pc[r] = "cover" /\ CoveredToday(r) /\ LastDay(r) BY EarlyAnswers
  <2>2. SUFFICES ASSUME NEW d \in bare[r] PROVE FALSE OBVIOUS
  <2>3. /\ day[r] <= d /\ d \in DayOf[win[r].s]..DayOf[win[r].e]
        /\ ~DayCovered(env.tf, blob, win[r], d)
    BY <2>1 DEF BareAhead, Span
  <2>4. /\ day[r] \in Int /\ DayOf[win[r].e] \in Int /\ day[r] >= DayOf[win[r].e]
    BY <2>1, LoopFacts DEF IInv, LastDay
  <2>5. d = day[r] BY <2>3, <2>4
  <2> QED BY <2>1, <2>3, <2>5 DEF CoveredToday
<1> QED BY <1>1, ReadInvariance, PTL DEF ReadSpec, UncoveredIsBackfilled

\* The bars of a window that are cached, as BarStore sees them.
LEMMA StoredInWindow ==
    ASSUME TypeOK, NEW w
    PROVE  /\ storedBar \subseteq Times
           /\ InWindow(w) \in SUBSET Times
           /\ Cached(w, blob) = InWindow(w) \cap storedBar
<1>1. \A d \in Days : blob[d] \subseteq BarTimes /\ blob[d] \subseteq OnDay(d) BY DEF TypeOK
<1>2. storedBar \subseteq Times BY <1>1, DayFacts DEF storedBar
<1>3. InWindow(w) \in SUBSET Times BY DEF InWindow
<1>4. \A t \in Times : t \in blob[DayOf[t]] <=> t \in storedBar
  BY <1>1, DayFacts DEF OnDay, storedBar
<1> QED BY <1>2, <1>3, <1>4 DEF Cached

\* ... and after a step.
LEMMA StoredNext ==
    ASSUME TypeOK', NEW w
    PROVE  /\ storedBar' \subseteq Times
           /\ Cached(w, blob') = InWindow(w) \cap storedBar'
           /\ \A t \in Times : t \in blob'[DayOf[t]] <=> t \in storedBar'
<1>1. \A d \in Days : blob'[d] \subseteq BarTimes /\ blob'[d] \subseteq OnDay(d) BY DEF TypeOK
<1>2. storedBar' \subseteq Times BY <1>1, DayFacts DEF storedBar
<1>3. InWindow(w) \in SUBSET Times BY DEF InWindow
<1>4. \A t \in Times : t \in blob'[DayOf[t]] <=> t \in storedBar'
  BY <1>1, DayFacts DEF OnDay, storedBar
<1> QED BY <1>2, <1>3, <1>4 DEF Cached

\* What a step that does not concern a request leaves of it in BarStore.
LEMMA CalmMapped ==
    ASSUME NEW q \in Req, Calm(q)
    PROVE  phaseBar'[q] = phaseBar[q] /\ wantBar'[q] = wantBar[q]
           /\ answer'[q] = answer[q]
<1>1. (pc'[q] = "idle") = (pc[q] = "idle") BY DEF Calm, Phase
<1> QED BY <1>1 DEF Calm, phaseBar, wantBar

\* A day's blob changes, or nothing BarStore sees.
LEMMA CalmChanges ==
    ASSUME IInv, IInv', ListsSeen, ListsSeen', AllCalm, Look
    PROVE  Promise!Change
<1>1. TypeOK /\ TypeOK' BY DEF IInv
<1>2. storedBar' \in SUBSET Times BY <1>1, StoredNext
<1>3. phaseBar' = phaseBar /\ wantBar' = wantBar
  BY CalmMapped DEF AllCalm, phaseBar, wantBar
<1>4. answer' = answer
  <2>1. \A q \in Req : answer'[q] = answer[q] BY DEF AllCalm, Calm
  <2> QED BY <1>1, <2>1 DEF TypeOK
<1>5. kept' = [q \in Req |-> kept[q] \cap storedBar']
  <2>1. ASSUME NEW q \in Req PROVE kept'[q] = kept[q] \cap storedBar'
    <3>1. kept[q] \subseteq Times BY <1>1, DayFacts DEF TypeOK
    <3>2. kept'[q] = {t \in kept[q] : t \in blob'[DayOf[t]]} BY DEF AllCalm
    <3> QED BY <1>1, <3>1, <3>2, StoredNext
  <2> QED BY <1>1, <2>1 DEF TypeOK
<1>6. seen' = [q \in Req |-> seen[q] \cup (wantBar[q] \cap storedBar')]
  <2>1. ASSUME NEW q \in Req PROVE seen'[q] = seen[q] \cup (wantBar[q] \cap storedBar')
    <3>1. SeenBy(q) /\ Calm(q) /\ kept'[q] \subseteq kept[q] BY DEF AllCalm, ListsSeen
    <3>2. seen'[q] = IF pc[q] = "idle" THEN {} ELSE seen[q] \cup Cached(win[q], blob')
      BY <3>1, CalmSeen
    <3>3. Cached(win[q], blob') = InWindow(win[q]) \cap storedBar' BY <1>1, StoredNext
    <3>4. pc[q] = "idle" => seen[q] = {} BY <3>1 DEF SeenBy
    <3> QED BY <3>2, <3>3, <3>4 DEF wantBar
  <2> QED BY <2>1 DEF ListsSeen
<1>7. (~env.live \/ ~NoBackfillSeries)' = (~env.live \/ ~NoBackfillSeries)
  BY DEF AllCalm, NoBackfillSeries
<1> QED BY <1>2, <1>3, <1>4, <1>5, <1>6, <1>7 DEF Promise!Change, Promise!requests

\* What a step of request r leaves alone, in BarStore's terms.
LEMMA AloneMapped ==
    ASSUME IInv, IInv', ListsSeen, ListsSeen', Look, NEW r \in Req, Alone(r)
    PROVE  /\ phaseBar' = [phaseBar EXCEPT ![r] = phaseBar'[r]]
           /\ wantBar'  = [wantBar  EXCEPT ![r] = wantBar'[r]]
           /\ kept'     = [kept     EXCEPT ![r] = kept'[r]]
           /\ seen'     = [seen     EXCEPT ![r] = seen'[r]]
           /\ answer'   = [answer   EXCEPT ![r] = answer'[r]]
           /\ storedBar' = storedBar
           /\ (~env.live \/ ~NoBackfillSeries)' = (~env.live \/ ~NoBackfillSeries)
<1>1. TypeOK /\ TypeOK' BY DEF IInv
<1>2. ASSUME NEW q \in Req, q # r
      PROVE  /\ phaseBar'[q] = phaseBar[q] /\ wantBar'[q] = wantBar[q]
             /\ kept'[q] = kept[q] /\ answer'[q] = answer[q]
  BY <1>2, CalmMapped DEF Alone
<1>3. \A q \in Req : q # r => seen'[q] = seen[q] BY AloneSeen
<1>4. storedBar' = storedBar BY DEF Alone, storedBar
<1>5. (~env.live \/ ~NoBackfillSeries)' = (~env.live \/ ~NoBackfillSeries)
  BY DEF Alone, NoBackfillSeries
<1>6. /\ phaseBar' = [phaseBar EXCEPT ![r] = phaseBar'[r]]
      /\ wantBar'  = [wantBar  EXCEPT ![r] = wantBar'[r]]
  BY <1>2 DEF phaseBar, wantBar
<1>7. kept' = [kept EXCEPT ![r] = kept'[r]] /\ answer' = [answer EXCEPT ![r] = answer'[r]]
  BY <1>1, <1>2 DEF TypeOK
<1>8. seen' = [seen EXCEPT ![r] = seen'[r]] BY <1>3 DEF ListsSeen
<1> QED BY <1>4, <1>5, <1>6, <1>7, <1>8

LEMMA BoundaryMapped ==
    ASSUME IInv, IInv', ListsSeen, ListsSeen', Look,
           NEW r \in Req, Comes(r) \/ Replies(r) \/ Fails(r) \/ Leaves(r)
    PROVE  Promise!Next
<1>1. TypeOK /\ TypeOK' /\ SeenBy(r) /\ SeenBy(r)' BY DEF IInv, ListsSeen
<1>2. /\ phaseBar' = [phaseBar EXCEPT ![r] = phaseBar'[r]]
      /\ wantBar'  = [wantBar  EXCEPT ![r] = wantBar'[r]]
      /\ kept'     = [kept     EXCEPT ![r] = kept'[r]]
      /\ seen'     = [seen     EXCEPT ![r] = seen'[r]]
      /\ answer'   = [answer   EXCEPT ![r] = answer'[r]]
      /\ storedBar' = storedBar
      /\ (~env.live \/ ~NoBackfillSeries)' = (~env.live \/ ~NoBackfillSeries)
  BY AloneMapped DEF Comes, Replies, Fails, Leaves
<1>3. blob' = blob BY DEF Comes, Replies, Fails, Leaves, Alone
<1>4. seen'[r] = IF pc'[r] = "idle" THEN {} ELSE seen[r] \cup Cached(win'[r], blob)
  BY <1>3, LookOf
<1>5. phaseBar[r] = Phase(pc[r]) /\ phaseBar'[r] = Phase(pc'[r])
      /\ wantBar[r] = (IF pc[r] = "idle" THEN {} ELSE InWindow(win[r]))
      /\ wantBar'[r] = (IF pc'[r] = "idle" THEN {} ELSE InWindow(win'[r]))
  BY DEF phaseBar, wantBar
<1>6. /\ wantBar'[r] = wantBar[r] => wantBar' = wantBar
      /\ kept'[r] = kept[r] => kept' = kept
      /\ seen'[r] = seen[r] => seen' = seen
      /\ answer'[r] = answer[r] => answer' = answer
  <2>1. kept \in [Req -> SUBSET BarTimes] /\ answer \in [Req -> SUBSET BarTimes]
    BY <1>1 DEF TypeOK
  <2>2. wantBar'[r] = wantBar[r] => wantBar' = wantBar BY <1>2 DEF wantBar
  <2>3. kept'[r] = kept[r] => kept' = kept BY <1>2, <2>1
  <2>4. answer'[r] = answer[r] => answer' = answer BY <1>2, <2>1
  <2>5. seen'[r] = seen[r] => seen' = seen BY <1>2 DEF ListsSeen
  <2> QED BY <2>2, <2>3, <2>4, <2>5
<1>7. CASE Comes(r)
  <2>1. /\ phaseBar[r] = "out" /\ phaseBar'[r] = "asking" /\ seen[r] = {}
        /\ wantBar'[r] = InWindow(win'[r]) /\ seen'[r] = Cached(win'[r], blob)
        /\ kept'[r] = Cached(win'[r], blob) /\ answer'[r] = answer[r]
    BY <1>1, <1>4, <1>5, <1>7 DEF Comes, Phase, SeenBy
  <2>2. /\ InWindow(win'[r]) \in SUBSET Times
        /\ Cached(win'[r], blob) = InWindow(win'[r]) \cap storedBar
    BY <1>1, StoredInWindow
  <2>3. Promise!Ask(r) BY <1>2, <1>6, <2>1, <2>2 DEF Promise!Ask
  <2> QED BY <2>3 DEF Promise!Next
<1>8. CASE Replies(r)
  <2>1. pc[r] # "idle" /\ pc'[r] = "done" /\ win'[r] = win[r] BY <1>8 DEF Replies, Phase
  <2>2. /\ phaseBar[r] = "asking" /\ phaseBar'[r] = "answered"
        /\ wantBar'[r] = wantBar[r] /\ kept'[r] = kept[r]
    BY <1>5, <1>8, <2>1 DEF Replies, Phase
  <2>3. seen'[r] = seen[r] BY <1>1, <1>4, <2>1 DEF SeenBy
  <2>4. answer'[r] \in SUBSET seen[r] BY <1>1, <1>8 DEF Replies, SeenBy
  <2>5. (~env.live \/ ~NoBackfillSeries) => kept[r] \subseteq answer'[r]
    <3>1. PartialsRetained' BY DEF IInv
    <3>2. (~env.live \/ ~NoBackfillSeries)' => kept'[r] \subseteq answer'[r]
      BY <2>1, <3>1 DEF PartialsRetained
    <3> QED BY <1>2, <2>2, <3>2
  <2>6. kept[r] \subseteq answer'[r] \/ answer'[r] = {} BY <1>8 DEF Replies
  <2>7. Promise!Answer(r) BY <1>2, <1>6, <2>2, <2>3, <2>4, <2>5, <2>6 DEF Promise!Answer
  <2> QED BY <2>7 DEF Promise!Next
<1>9. CASE Fails(r)
  <2>1. pc[r] # "idle" /\ pc'[r] = "failed" /\ win'[r] = win[r] BY <1>9 DEF Fails, Phase
  <2>2. /\ phaseBar[r] = "asking" /\ phaseBar'[r] = "failed"
        /\ wantBar'[r] = wantBar[r] /\ kept'[r] = kept[r] /\ answer'[r] = answer[r]
    BY <1>5, <1>9, <2>1 DEF Fails, Phase
  <2>3. seen'[r] = seen[r] BY <1>1, <1>4, <2>1 DEF SeenBy
  <2>4. Promise!Fail(r) BY <1>2, <1>6, <2>2, <2>3 DEF Promise!Fail
  <2> QED BY <2>4 DEF Promise!Next
<1>10. CASE Leaves(r)
  <2>1. /\ phaseBar[r] \in {"answered", "failed"} /\ phaseBar'[r] = "out"
        /\ wantBar'[r] = {} /\ kept'[r] = {} /\ answer'[r] = {} /\ seen'[r] = {}
    BY <1>4, <1>5, <1>10 DEF Leaves, Phase
  <2>2. Promise!Leave(r) BY <1>2, <2>1 DEF Promise!Leave
  <2> QED BY <2>2 DEF Promise!Next
<1> QED BY <1>7, <1>8, <1>9, <1>10

LEMMA StoreStep ==
    IInv /\ IInv' /\ ListsSeen /\ ListsSeen' /\ [ReadNext]_readVars
        => [Promise!Next]_Promise!vars
<1> SUFFICES ASSUME IInv, IInv', ListsSeen, ListsSeen', [ReadNext]_readVars
             PROVE  [Promise!Next]_Promise!vars
  OBVIOUS
<1>1. CASE ReadNext
  <2>1. Kinds /\ Look BY <1>1, StepKinds DEF ReadNext
  <2>2. Promise!Next BY <2>1, CalmChanges, BoundaryMapped DEF Kinds, Promise!Next
  <2> QED BY <2>2
<1>2. CASE UNCHANGED readVars
  BY <1>2 DEF readVars, vars, cache, locals, phaseBar, wantBar, storedBar, NoBackfillSeries,
              Promise!vars, Promise!requests
<1> QED BY <1>1, <1>2

LEMMA StoreInit == ReadInit => Promise!Init
BY DEF ReadInit, Init, Promise!Init, phaseBar, wantBar, storedBar, Phase, Days, NoBackfillSeries

(* A request reads the cache day by day, merges and reads again, between    *)
(* other requests' merges, other writers and expiry: what it answers is     *)
(* what BarStore promises, for any number of them.                         *)
THEOREM StoreImplemented == ReadSpec => ImplementsStore
BY ReadInvariance, StoreInit, StoreStep, PTL DEF ReadSpec, ImplementsStore, Promise!Spec
=============================================================================
