------------------------ MODULE CountriesApp_proofs ------------------------
(***************************************************************************)
(* Type correctness, the agreement of screen and data controller, and the  *)
(* refinement of the durable catalogue, for every bundle, every set of     *)
(* names and lists of any length.                                          *)
(***************************************************************************)
EXTENDS CountriesApp, SequenceTheorems, TLAPS

-----------------------------------------------------------------------------
(* Lists.                                                                  *)

\* remove(at:) keeps the type and shortens the list by one.
LEMMA RemoveAtType ==
    ASSUME NEW S, NEW s \in Seq(S), NEW i \in 1..Len(s)
    PROVE  RemoveAt(s, i) \in Seq(S) /\ Len(RemoveAt(s, i)) = Len(s) - 1
<1>1. /\ SubSeq(s, 1, i-1) \in Seq(S)
      /\ Len(SubSeq(s, 1, i-1)) = i - 1
  <2>1. \A j \in 1..(i-1) : s[j] \in S
    BY ElementOfSeq, LenProperties
  <2>2. QED  BY <2>1, SubSeqProperties, LenProperties
<1>2. /\ SubSeq(s, i+1, Len(s)) \in Seq(S)
      /\ Len(SubSeq(s, i+1, Len(s))) = Len(s) - i
  <2>1. \A j \in (i+1)..Len(s) : s[j] \in S
    BY ElementOfSeq, LenProperties
  <2>2. QED  BY <2>1, SubSeqProperties, LenProperties
<1>3. \A a, b \in Seq(S) : /\ a \o b \in Seq(S)
                           /\ Len(a \o b) = Len(a) + Len(b)
  BY ConcatProperties
<1>4. /\ RemoveAt(s, i) \in Seq(S)
      /\ Len(RemoveAt(s, i)) = Len(SubSeq(s, 1, i-1)) + Len(SubSeq(s, i+1, Len(s)))
  BY <1>1, <1>2, <1>3, Zenon DEF RemoveAt
<1>5. Len(RemoveAt(s, i)) = (i - 1) + (Len(s) - i)
  BY <1>1, <1>2, <1>4, Zenon
<1>6. (i - 1) + (Len(s) - i) = Len(s) - 1
  BY LenProperties
<1>7. QED  BY <1>4, <1>5, <1>6, Zenon

\* insert(_:at:) keeps the type and lengthens the list by one.
LEMMA InsertAtType ==
    ASSUME NEW S, NEW s \in Seq(S), NEW i \in 1..(Len(s) + 1), NEW e \in S
    PROVE  InsertAt(s, i, e) \in Seq(S) /\ Len(InsertAt(s, i, e)) = Len(s) + 1
<1>1. /\ SubSeq(s, 1, i-1) \in Seq(S)
      /\ Len(SubSeq(s, 1, i-1)) = i - 1
  <2>1. \A j \in 1..(i-1) : s[j] \in S
    BY ElementOfSeq, LenProperties
  <2>2. QED  BY <2>1, SubSeqProperties, LenProperties
<1>2. /\ SubSeq(s, i, Len(s)) \in Seq(S)
      /\ Len(SubSeq(s, i, Len(s))) = Len(s) - i + 1
  <2>1. \A j \in i..Len(s) : s[j] \in S
    BY ElementOfSeq, LenProperties
  <2>2. QED  BY <2>1, SubSeqProperties, LenProperties
<1>3. <<e>> \in Seq(S) /\ Len(<<e>>) = 1
  OBVIOUS
<1>4. \A a, b \in Seq(S) : /\ a \o b \in Seq(S)
                           /\ Len(a \o b) = Len(a) + Len(b)
  BY ConcatProperties
<1>5. /\ SubSeq(s, 1, i-1) \o <<e>> \in Seq(S)
      /\ Len(SubSeq(s, 1, i-1) \o <<e>>) = (i - 1) + 1
  BY <1>1, <1>3, <1>4, Zenon
<1>6. /\ InsertAt(s, i, e) \in Seq(S)
      /\ Len(InsertAt(s, i, e)) = ((i - 1) + 1) + (Len(s) - i + 1)
  BY <1>2, <1>4, <1>5, Zenon DEF InsertAt
<1>7. ((i - 1) + 1) + (Len(s) - i + 1) = Len(s) + 1
  BY LenProperties
<1>8. QED  BY <1>6, <1>7, Zenon

\* insert(_:at: count) is append(_:).
LEMMA InsertAtEnd ==
    ASSUME NEW S, NEW s \in Seq(S), NEW e \in S
    PROVE  InsertAt(s, Len(s) + 1, e) = Append(s, e)
<1>1. SubSeq(s, 1, (Len(s) + 1) - 1) = s
  BY SubSeqFull, LenProperties
<1>2. SubSeq(s, Len(s) + 1, Len(s)) = << >>
  BY SubSeqEmpty, LenProperties
<1>3. s \o <<e>> = Append(s, e)
  OBVIOUS
<1>4. (s \o <<e>>) \o << >> = s \o <<e>>
  BY ConcatEmptySeq, ConcatProperties
<1>5. QED  BY <1>1, <1>2, <1>3, <1>4 DEF InsertAt

\* append(_:) does too.
LEMMA AppendType ==
    ASSUME NEW S, NEW s \in Seq(S), NEW e \in S
    PROVE  Append(s, e) \in Seq(S) /\ Len(Append(s, e)) = Len(s) + 1
OBVIOUS

\* swapAt keeps the type and the length.
LEMMA SwappedType ==
    ASSUME NEW S, NEW s \in Seq(S), NEW i \in 1..Len(s), NEW j \in 1..Len(s)
    PROVE  Swapped(s, i, j) \in Seq(S) /\ Len(Swapped(s, i, j)) = Len(s)
<1>1. s[i] \in S /\ s[j] \in S
  BY ElementOfSeq
<1>2. /\ [s EXCEPT ![i] = s[j]] \in Seq(S)
      /\ Len([s EXCEPT ![i] = s[j]]) = Len(s)
  BY <1>1, ExceptSeq
<1>3. QED  BY <1>1, <1>2, ExceptSeq DEF Swapped

-----------------------------------------------------------------------------
(* Catalogues.                                                             *)

\* A catalogue has one list per continent and is never the empty array.
LEMMA CatalogShape ==
    ASSUME NEW d \in Catalog
    PROVE  /\ Len(d) = NumContinents
           /\ DOMAIN d = 1..NumContinents
           /\ d # NoData
           /\ \A i \in 1..NumContinents : d[i] \in Seq(Country)
<1>1. d \in Seq(Seq(Country))
  BY CountriesAssumption, SeqDef DEF Catalog
<1>2. DOMAIN d = 1..NumContinents
  BY DEF Catalog
<1>3. Len(d) = NumContinents
  BY <1>1, <1>2, LenProperties, CountriesAssumption
<1>4. d # NoData
  BY <1>3, CountriesAssumption, EmptySeq DEF NoData
<1>5. QED  BY <1>2, <1>3, <1>4 DEF Catalog

\* Replacing one list by another leaves a catalogue; only that list changes.
LEMMA CatalogExcept ==
    ASSUME NEW d \in Catalog, NEW i \in 1..NumContinents, NEW l \in Seq(Country)
    PROVE  /\ [d EXCEPT ![i] = l] \in Catalog
           /\ [d EXCEPT ![i] = l][i] = l
           /\ \A j \in 1..NumContinents \ {i} : [d EXCEPT ![i] = l][j] = d[j]
BY DEF Catalog

\* What a start loads is a catalogue or nothing.
LEMMA LoadType ==
    ASSUME TypeOK
    PROVE  /\ loadData \in Catalog \cup {NoData}
           /\ LoadCountries \in Catalog \cup {NoData}
           /\ Len(loadData) = IF loadData = NoData THEN 0 ELSE NumContinents
<1>1. /\ loadData \in Catalog \cup {NoData}
      /\ LoadCountries \in Catalog \cup {NoData}
  BY CountriesAssumption
  DEF TypeOK, loadData, LoadCountries, LoadCountriesDemo, LoadLab2New
<1>2. Len(NoData) = 0
  BY EmptySeq DEF NoData
<1>3. QED  BY <1>1, <1>2, CatalogShape

\* So is what it ends up with when the read may fail.
LEMMA ReadableType ==
    ASSUME TypeOK, NEW d \in readable
    PROVE  /\ d \in Catalog \cup {NoData}
           /\ Len(d) = IF d = NoData THEN 0 ELSE NumContinents
<1>1. d = loadData \/ d = NoData
  BY DEF readable
<1>2. Len(NoData) = 0
  BY EmptySeq DEF NoData
<1>3. QED  BY <1>1, <1>2, LoadType

-----------------------------------------------------------------------------
(* The invariant.                                                          *)

LEMMA InitIndInv == Init => IndInv
<1> SUFFICES ASSUME Init PROVE IndInv
  OBVIOUS
<1>1. << >> \in Seq(Country)
  BY EmptySeq
<1>2. 1 \in 1..NumContinents
  BY CountriesAssumption
<1>3. TypeOK
  BY <1>1, <1>2 DEF Init, TypeOK, Absent, NoData
<1>4. QED  BY <1>3 DEF Init, IndInv, running, ScreenMirrorsModel, NoData

\* The end of the process, whatever it leaves in the file.
LEMMA ExitIndInv ==
    ASSUME IndInv, Exit, UNCHANGED file
    PROVE  IndInv'
<1>1. << >> \in Seq(Country)
  BY EmptySeq
<1>2. 1 \in 1..NumContinents
  BY CountriesAssumption
<1>3. TypeOK'
  BY <1>1, <1>2 DEF IndInv, TypeOK, Exit
<1>4. QED  BY <1>3 DEF IndInv, Exit, running, ScreenMirrorsModel

LEMMA NextIndInv == IndInv /\ [Next]_vars => IndInv'
<1> SUFFICES ASSUME IndInv, [Next]_vars PROVE IndInv'
  OBVIOUS
<1> USE DEF IndInv, running, ScreenMirrorsModel, LoadCountries
<1>0. TypeOK
  OBVIOUS
<1>1. CASE Launch
  <2>1. /\ allData' \in Catalog \cup {NoData}
        /\ continentsList' = IF allData' = NoData THEN 0 ELSE NumContinents
    BY <1>1, <1>0, ReadableType DEF Launch
  <2>2. TypeOK'
    BY <1>1, <1>0, <2>1 DEF Launch, TypeOK, screens
  <2>3. loadData = NoData => LoadCountries = NoData
    BY CatalogShape, CountriesAssumption
    DEF loadData, LoadCountriesDemo, LoadLab2New
  <2>4. allData' = NoData /\ ~unread' => LoadCountries = NoData
    BY <1>1, <2>3 DEF Launch
  <2>5. UNCHANGED LoadCountries
    BY <1>1 DEF Launch
  <2>6. QED  BY <1>1, <1>0, <2>1, <2>2, <2>4, <2>5 DEF Launch, screens
<1>2. ASSUME NEW i \in 1..NumContinents, SelectContinent(i)
      PROVE  IndInv'
  <2>1. allData \in Catalog /\ allData[i] \in Seq(Country)
    BY <1>2, <1>0, CatalogShape, CountriesAssumption DEF SelectContinent, TypeOK
  <2>2. QED  BY <1>2, <1>0, <2>1 DEF SelectContinent, TypeOK, getCountries
<1>3. ASSUME NEW i \in 1..NumContinents, ShowInfo(i)
      PROVE  IndInv'
  <2>1. allData \in Catalog /\ Len(allData[i]) \in Nat
    BY <1>3, <1>0, CatalogShape, CountriesAssumption, LenProperties
    DEF ShowInfo, TypeOK
  <2>2. QED  BY <1>3, <1>0, <2>1 DEF ShowInfo, TypeOK, getCountries
<1>4. CASE Back
  BY <1>4, <1>0 DEF Back, TypeOK
<1>5. CASE PressAdd
  BY <1>5, <1>0 DEF PressAdd, TypeOK
<1>6. CASE LeaveAdd
  BY <1>6, <1>0 DEF LeaveAdd, Unchanged, TypeOK
<1>7. ASSUME NEW c \in Country, SaveCountry(c)
      PROVE  IndInv'
  <2> DEFINE i == selectedContinent
             l == InsertAt(allData[i], Len(countryList) + 1, c)
  <2>1. /\ allData \in Catalog /\ i \in 1..NumContinents
        /\ allData[i] \in Seq(Country) /\ countryList \in Seq(Country)
        /\ Len(countryList) = Len(allData[i]) /\ Len(countryList) \in Nat
    BY <1>7, <1>0, CatalogShape, LenProperties DEF SaveCountry, TypeOK
  <2>2. l = Append(allData[i], c)
    BY <2>1, InsertAtEnd
  <2>3. /\ l \in Seq(Country) /\ Len(l) = Len(allData[i]) + 1
        /\ countryList' \in Seq(Country)
        /\ Len(countryList') = Len(countryList) + 1
    <3>1. countryList' = Append(countryList, c)
      BY <1>7 DEF SaveCountry
    <3>2. l \in Seq(Country) /\ Len(l) = Len(allData[i]) + 1
      <4>1. /\ Append(allData[i], c) \in Seq(Country)
            /\ Len(Append(allData[i], c)) = Len(allData[i]) + 1
        BY <2>1, AppendType, Zenon
      <4> HIDE DEF l
      <4>2. QED  BY <4>1, <2>2, Zenon
    <3>3. QED  BY <2>1, <3>1, <3>2, AppendType, Zenon
  <2>4. allData' = [allData EXCEPT ![i] = l]
    BY <1>7 DEF SaveCountry, addCountry
  <2>5. allData' \in Catalog /\ allData'[i] = l
    <3> HIDE DEF l
    <3>1. [allData EXCEPT ![i] = l] \in Catalog /\ [allData EXCEPT ![i] = l][i] = l
      BY <2>1, <2>3, CatalogExcept
    <3>2. QED  BY <2>4, <3>1
  <2>6. TypeOK'
    BY <1>7, <1>0, <2>3, <2>5 DEF SaveCountry, Unchanged, TypeOK
  <2>7. ~moved' => countryList' = l
    BY <1>7, <2>2 DEF SaveCountry
  <2>8. allData # NoData /\ allData' # NoData
    BY <2>1, <2>5, CatalogShape
  <2>9. QED
    BY <1>7, <2>1, <2>3, <2>5, <2>6, <2>7, <2>8 DEF SaveCountry, Unchanged
<1>8. ASSUME NEW r \in 1..Len(countryList), DeleteRow(r)
      PROVE  IndInv'
  <2> DEFINE i == selectedContinent
             l == RemoveAt(allData[i], r)
  <2>1. /\ allData \in Catalog /\ i \in 1..NumContinents
        /\ allData[i] \in Seq(Country) /\ countryList \in Seq(Country)
        /\ Len(countryList) = Len(allData[i]) /\ Len(countryList) \in Nat
        /\ r \in 1..Len(countryList)
    BY <1>8, <1>0, CatalogShape, LenProperties DEF DeleteRow, TypeOK
  <2>2. /\ l \in Seq(Country) /\ Len(l) = Len(allData[i]) - 1
        /\ countryList' \in Seq(Country)
        /\ Len(countryList') = Len(countryList) - 1
    BY <1>8, <2>1, RemoveAtType DEF DeleteRow
  <2>3. allData' = [allData EXCEPT ![i] = l]
    BY <1>8 DEF DeleteRow, deleteCountry
  <2>4. allData' \in Catalog /\ allData'[i] = l
    <3> HIDE DEF l
    <3>1. [allData EXCEPT ![i] = l] \in Catalog /\ [allData EXCEPT ![i] = l][i] = l
      BY <2>1, <2>2, CatalogExcept
    <3>2. QED  BY <2>3, <3>1
  <2>5. TypeOK'
    BY <1>8, <1>0, <2>2, <2>4 DEF DeleteRow, Unchanged, TypeOK
  <2>6. ~moved' => countryList' = l
    BY <1>8 DEF DeleteRow
  <2>7. allData # NoData /\ allData' # NoData
    BY <2>1, <2>4, CatalogShape
  <2>8. QED
    BY <1>8, <2>1, <2>2, <2>4, <2>5, <2>6, <2>7 DEF DeleteRow, Unchanged
<1>9. ASSUME NEW from \in 1..Len(countryList), NEW to \in 1..Len(countryList),
             MoveRow(from, to)
      PROVE  IndInv'
  <2> DEFINE i == selectedContinent
             k == RemoveAt(allData[i], from)
             l == InsertAt(k, to, countryList[from])
  <2>1. /\ allData \in Catalog /\ i \in 1..NumContinents
        /\ allData[i] \in Seq(Country) /\ countryList \in Seq(Country)
        /\ Len(countryList) = Len(allData[i]) /\ Len(countryList) \in Nat
        /\ from \in 1..Len(countryList) /\ to \in 1..Len(countryList)
        /\ countryList[from] \in Country
    BY <1>9, <1>0, CatalogShape, LenProperties, ElementOfSeq DEF MoveRow, TypeOK
  <2>2. k \in Seq(Country) /\ Len(k) = Len(countryList) - 1
    BY <2>1, RemoveAtType
  <2>3. to \in 1..(Len(k) + 1)
    BY <2>1, <2>2
  <2>4. l \in Seq(Country) /\ Len(l) = Len(k) + 1
    BY <2>1, <2>2, <2>3, InsertAtType
  <2>5. countryList' \in Seq(Country) /\ Len(countryList') = Len(countryList)
    BY <1>9, <2>1, SwappedType DEF MoveRow
  <2>6. allData' = [[allData EXCEPT ![i] = k] EXCEPT ![i] = l]
    <3>1. allData' = addCountry(deleteCountry(allData, i, from), i, countryList[from], to)
      BY <1>9 DEF MoveRow
    <3>2. deleteCountry(allData, i, from) = [allData EXCEPT ![i] = k]
      BY DEF deleteCountry
    <3>3. [allData EXCEPT ![i] = k][i] = k
      <4>1. i \in DOMAIN allData
        BY <2>1, CatalogShape
      <4> HIDE DEF k
      <4>2. QED  BY <4>1
    <3>4. addCountry([allData EXCEPT ![i] = k], i, countryList[from], to)
             = [[allData EXCEPT ![i] = k] EXCEPT ![i] = l]
      BY <3>3 DEF addCountry
    <3>5. QED  BY <3>1, <3>2, <3>4
  <2>7. allData' \in Catalog /\ allData'[i] = l
    BY <2>1, <2>2, <2>4, <2>6, CatalogExcept
  <2>8. TypeOK'
    BY <1>9, <1>0, <2>5, <2>7 DEF MoveRow, Unchanged, TypeOK
  <2>9. allData # NoData /\ allData' # NoData
    BY <2>1, <2>7, CatalogShape
  <2>10. QED
    BY <1>9, <2>1, <2>2, <2>4, <2>5, <2>7, <2>8, <2>9 DEF MoveRow, Unchanged
<1>10. CASE ResignActive
  BY <1>10, <1>0 DEF ResignActive, TypeOK, screens, Torn
<1>11. CASE FinishWrite
  BY <1>11, <1>0 DEF FinishWrite, TypeOK, screens, Plist
<1>12. CASE FailOpen
  BY <1>12, <1>0, ExitIndInv DEF FailOpen, TypeOK, screens
<1>13. CASE FailWrite
  BY <1>13, <1>0, ExitIndInv DEF FailWrite, TypeOK, screens
<1>14. CASE BecomeActive
  BY <1>14, <1>0 DEF BecomeActive, TypeOK, screens
<1>15. CASE Kill
  BY <1>15, ExitIndInv DEF Kill
<1>16. CASE UNCHANGED vars
  BY <1>16, <1>0 DEF vars, TypeOK
<1>17. QED
  BY <1>1, <1>2, <1>3, <1>4, <1>5, <1>6, <1>7, <1>8, <1>9, <1>10, <1>11,
     <1>12, <1>13, <1>14, <1>15, <1>16 DEF Next

\* The invariant holds throughout.
LEMMA Invariance == Spec => []IndInv
BY InitIndInv, NextIndInv, PTL DEF Spec

\* The variables have their types and the list screen one row per entry.
THEOREM TypeCorrect == Spec => []TypeOK
BY Invariance, PTL DEF IndInv

\* No handler of the detail screen uses an index outside the array, with or
\* without the edit button.
THEOREM IndexSafety == Spec => []IndexesInRange
<1>1. IndInv => IndexesInRange
  <2> SUFFICES ASSUME IndInv PROVE IndexesInRange
    OBVIOUS
  <2>1. Len(NoData) = 0
    BY EmptySeq DEF NoData
  <2>2. allData = NoData \/ allData \in Catalog
    BY DEF IndInv, TypeOK
  <2>3. QED
    BY <2>1, <2>2, CatalogShape DEF IndInv, IndexesInRange, TypeOK
<1>2. QED  BY <1>1, Invariance, PTL

\* Every screen shows what the data controller holds, until a row is moved.
THEOREM MirrorCorrect == Spec => []ScreenMirrorsModel
BY Invariance, PTL DEF IndInv

-----------------------------------------------------------------------------
(* The refinement.  ResignActive maps to Keep, FinishWrite to a stutter,   *)
(* and what interrupts the write in between to Lose.                       *)

\* A changed list of one continent is an edit of the durable catalogue.
LEMMA EditRefines ==
    ASSUME IndInv, running, allData \in Catalog,
           NEW i \in 1..NumContinents, NEW l \in Seq(Country),
           allData' = [allData EXCEPT ![i] = l],
           UNCHANGED <<phase, file>>, phase # "writing"
    PROVE  Durable!Edit
<1>1. /\ DOMAIN allData' = DOMAIN allData
      /\ i \in DOMAIN allData
      /\ \A j \in DOMAIN allData \ {i} : allData'[j] = allData[j]
  BY CatalogShape, CatalogExcept
<1>2. Kept' = Kept
  BY DEF Kept, LoadCountries
<1>3. QED  BY <1>1, <1>2 DEF Durable!Edit, running

LEMMA StepRefines ==
    ASSUME Variant = "countries", IndInv, [Next]_vars
    PROVE  [Durable!Next]_Durable!vars
<1>0. USE DEF running, Kept, LoadCountries, screens
<1>1. CASE Launch
  <2>1. Kept' = Kept /\ loadData = Kept
    BY <1>1 DEF Launch, loadData
  <2>2. allData' = loadData \/ (StorageFails /\ allData' = NoData)
    BY <1>1 DEF Launch, readable
  <2>3. Durable!Open \/ Durable!OpenFails
    BY <1>1, <2>1, <2>2 DEF Launch, Durable!Open, Durable!OpenFails
  <2>4. QED  BY <2>3 DEF Durable!Next
<1>2. ASSUME NEW i \in 1..NumContinents, SelectContinent(i) \/ ShowInfo(i)
      PROVE  UNCHANGED Durable!vars
  BY <1>2 DEF SelectContinent, ShowInfo, Durable!vars
<1>3. CASE Back \/ PressAdd \/ LeaveAdd
  BY <1>3 DEF Back, PressAdd, LeaveAdd, Unchanged, Durable!vars
<1>4. ASSUME NEW c \in Country, SaveCountry(c)
      PROVE  Durable!Edit
  <2> DEFINE i == selectedContinent
             l == InsertAt(allData[i], Len(countryList) + 1, c)
  <2>1. /\ allData \in Catalog /\ i \in 1..NumContinents
        /\ Len(countryList) = Len(allData[i])
    BY <1>4 DEF SaveCountry, IndInv, TypeOK
  <2>2. allData[i] \in Seq(Country)
    BY <2>1, CatalogShape
  <2>3. l \in Seq(Country)
    <3>1. Append(allData[i], c) \in Seq(Country)
      BY <2>2
    <3>2. l = Append(allData[i], c)
      BY <2>1, <2>2, InsertAtEnd
    <3>3. QED  BY <3>1, <3>2, Zenon
  <2>4. allData' = [allData EXCEPT ![i] = l]
    BY <1>4 DEF SaveCountry, addCountry
  <2>5. running /\ phase # "writing" /\ UNCHANGED <<phase, file>>
    BY <1>4 DEF SaveCountry, Unchanged
  <2> HIDE DEF l
  <2>6. QED  BY <2>1, <2>3, <2>4, <2>5, EditRefines
<1>5. ASSUME NEW r \in 1..Len(countryList), DeleteRow(r)
      PROVE  Durable!Edit
  <2> DEFINE i == selectedContinent
             l == RemoveAt(allData[i], r)
  <2>1. /\ allData \in Catalog /\ i \in 1..NumContinents
        /\ r \in 1..Len(allData[i])
    BY <1>5 DEF DeleteRow, IndInv, TypeOK
  <2>2. l \in Seq(Country)
    BY <2>1, CatalogShape, RemoveAtType
  <2>3. allData' = [allData EXCEPT ![i] = l]
    BY <1>5 DEF DeleteRow, deleteCountry
  <2>4. running /\ phase # "writing" /\ UNCHANGED <<phase, file>>
    BY <1>5 DEF DeleteRow, Unchanged
  <2> HIDE DEF l
  <2>5. QED  BY <2>1, <2>2, <2>3, <2>4, EditRefines
<1>6. ASSUME NEW from \in 1..Len(countryList), NEW to \in 1..Len(countryList),
             MoveRow(from, to)
      PROVE  Durable!Edit
  <2> DEFINE i == selectedContinent
  <2>1. allData \in Catalog /\ i \in DOMAIN allData
    BY <1>6, CatalogShape DEF MoveRow, IndInv, TypeOK
  <2>2. /\ DOMAIN allData' = DOMAIN allData
        /\ \A j \in DOMAIN allData \ {i} : allData'[j] = allData[j]
    BY <1>6 DEF MoveRow, addCountry, deleteCountry
  <2>3. running /\ phase # "writing" /\ UNCHANGED <<phase, file>>
    BY <1>6 DEF MoveRow, Unchanged
  <2>4. QED  BY <2>1, <2>2, <2>3 DEF Durable!Edit
<1>7. CASE ResignActive
  <2>1. Durable!Keep
    BY <1>7 DEF ResignActive, Durable!Keep
  <2>2. QED  BY <2>1 DEF Durable!Next
<1>8. CASE FinishWrite
  BY <1>8 DEF FinishWrite, Plist, Durable!vars
<1>9. CASE FailOpen
  BY <1>9 DEF FailOpen, Exit, Durable!vars, Durable!Next, Durable!Close
<1>10. CASE FailWrite
  <2>1. file.data = NoData /\ file.kind # "absent"
    BY <1>10 DEF FailWrite, IndInv, TypeOK
  <2>2. Durable!Lose
    BY <1>10, <2>1 DEF FailWrite, Exit, Durable!Lose
  <2>3. QED  BY <2>2 DEF Durable!Next
<1>11. CASE BecomeActive
  BY <1>11 DEF BecomeActive, Durable!vars
<1>12. CASE Kill
  <2>1. phase = "writing" => file.data = NoData /\ file.kind # "absent"
    BY DEF IndInv, TypeOK
  <2>2. Durable!Close \/ Durable!Lose
    BY <1>12, <2>1 DEF Kill, Exit, Durable!Close, Durable!Lose
  <2>3. QED  BY <2>2 DEF Durable!Next
<1>13. CASE UNCHANGED vars
  BY <1>13 DEF vars, Durable!vars
<1>14. QED
  BY <1>1, <1>2, <1>3, <1>4, <1>5, <1>6, <1>7, <1>8, <1>9, <1>10, <1>11,
     <1>12, <1>13 DEF Next, Durable!Next

\* The countries app implements the durable catalogue.
THEOREM CountriesImplementsDurableCatalog ==
    Variant = "countries" => (Spec => ImplementsDurableCatalog)
<1> SUFFICES ASSUME Variant = "countries" PROVE Spec => ImplementsDurableCatalog
  OBVIOUS
<1>1. Init => Durable!Init
  BY DEF Init, Durable!Init, running, Kept, LoadCountries, Absent
<1>2. IndInv /\ [Next]_vars => [Durable!Next]_Durable!vars
  BY StepRefines
<1>3. QED
  BY <1>1, <1>2, Invariance, PTL DEF Spec, Durable!Spec, ImplementsDurableCatalog

-----------------------------------------------------------------------------
(* How a catalogue is lost.                                                *)

\* Only a save that was cut short or failed, or the first one after a start
\* that could not read, loses the catalogue.
THEOREM LossOnlyByFailureHolds == Spec => LossOnlyByFailure
<1> DEFINE A == Kept # NoData /\ Kept' = NoData
                   => \/ phase = "writing" /\ phase' # "writing" /\ file' = Torn
                      \/ unread /\ phase = "active" /\ phase' = "writing"
<1>1. ASSUME IndInv, [Next]_vars PROVE [A]_vars
  <2> USE DEF Kept, LoadCountries, running
  <2>1. CASE Launch
    BY <2>1 DEF Launch, screens
  <2>2. ASSUME NEW i \in 1..NumContinents, SelectContinent(i) \/ ShowInfo(i)
        PROVE  A
    BY <2>2 DEF SelectContinent, ShowInfo
  <2>3. CASE Back \/ PressAdd \/ LeaveAdd
    BY <2>3 DEF Back, PressAdd, LeaveAdd, Unchanged
  <2>4. ASSUME NEW c \in Country, SaveCountry(c) PROVE A
    BY <2>4 DEF SaveCountry, Unchanged
  <2>5. ASSUME NEW r \in 1..Len(countryList), DeleteRow(r) PROVE A
    BY <2>5 DEF DeleteRow, Unchanged
  <2>6. ASSUME NEW from \in 1..Len(countryList), NEW to \in 1..Len(countryList),
               MoveRow(from, to)
        PROVE  A
    BY <2>6 DEF MoveRow, Unchanged
  <2>7. CASE ResignActive
    BY <1>1, <2>7 DEF ResignActive, IndInv
  <2>8. CASE FinishWrite
    BY <2>8 DEF FinishWrite, Plist
  <2>9. CASE FailOpen
    BY <2>9 DEF FailOpen, Exit
  <2>10. phase = "writing" => file = Torn
    BY <1>1 DEF IndInv, TypeOK, Torn
  <2>11. CASE FailWrite
    BY <2>10, <2>11 DEF FailWrite, Exit
  <2>12. CASE BecomeActive
    BY <2>12 DEF BecomeActive
  <2>13. CASE Kill
    BY <2>10, <2>13 DEF Kill, Exit
  <2>14. QED
    BY <1>1, <2>1, <2>2, <2>3, <2>4, <2>5, <2>6, <2>7, <2>8, <2>9, <2>11, <2>12,
       <2>13 DEF Next
<1>2. QED  BY <1>1, Invariance, PTL DEF Spec, LossOnlyByFailure

\* In the countries app a lost catalogue never comes back.
THEOREM LossIsForeverHolds == Variant = "countries" => (Spec => LossIsForever)
<1> SUFFICES ASSUME Variant = "countries" PROVE Spec => LossIsForever
  OBVIOUS
<1>1. ASSUME IndInv, [Next]_vars PROVE [Lost => Lost']_vars
  <2> SUFFICES ASSUME Lost, Next PROVE Lost'
    BY <1>1
  <2> USE DEF Lost, Kept, LoadCountries, running
  <2>1. allData \notin Catalog
    BY CatalogShape
  <2>2. screen = "list" /\ continentsList = 0
    BY <1>1, <2>1 DEF IndInv
  <2>3. CASE Launch
    BY <2>3 DEF Launch, loadData, readable
  <2>4. CASE ResignActive
    BY <1>1, <2>4 DEF ResignActive, screens, IndInv
  <2>5. CASE FinishWrite
    BY <2>5 DEF FinishWrite, screens, Plist
  <2>6. CASE FailOpen
    BY <1>1, <2>6 DEF FailOpen, Exit, screens, IndInv
  <2>7. CASE FailWrite
    BY <1>1, <2>7 DEF FailWrite, Exit, screens, IndInv, TypeOK
  <2>8. CASE BecomeActive
    BY <1>1, <2>8 DEF BecomeActive, screens, IndInv
  <2>9. CASE Kill
    BY <1>1, <2>9 DEF Kill, Exit, IndInv, TypeOK
  <2>10. QED
    BY <2>2, <2>3, <2>4, <2>5, <2>6, <2>7, <2>8, <2>9
    DEF Next, SelectContinent, ShowInfo, Back, PressAdd, LeaveAdd, SaveCountry,
        DeleteRow, MoveRow
<1>2. QED  BY <1>1, Invariance, PTL DEF Spec, LossIsForever

\* The countries app loses the catalogue only by a write or a read that failed,
\* and then for good.
THEOREM LossCorrect == Variant = "countries" => (Spec => LossIsRight)
BY LossOnlyByFailureHolds, LossIsForeverHolds DEF LossIsRight

=============================================================================
