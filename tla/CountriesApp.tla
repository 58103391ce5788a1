---------------------------- MODULE CountriesApp ----------------------------
(***************************************************************************)
(* The countries app (inclass/countries), its sibling countries_demo and   *)
(* labs/lab2New: a data controller that holds the catalogue in memory, a   *)
(* list screen, a detail screen that edits one list through a working      *)
(* copy, and a plist file written when the app resigns active.  Everything *)
(* runs on the main thread; what interleaves is the user, the system's     *)
(* life-cycle notifications and the end of the process.                    *)
(***************************************************************************)
EXTENDS Naturals, Sequences, SequencesExt

CONSTANTS
    Country,        \* names that can be typed in
    NumContinents,  \* entries of the bundled plist
    Bundle,         \* the bundled plist
    Variant,        \* which of the three apps
    EditButton,     \* is the commented-out editButtonItem line compiled in?
    StorageFails,   \* may a read or a write fail, or a write be cut short?
    MaxCountries    \* bound: longest list the user builds, per continent

Catalog == [1..NumContinents -> Seq(Country)]
NoData  == << >>

ASSUME CountriesAssumption ==
    /\ NumContinents \in Nat \ {0}
    /\ Bundle \in Catalog
    /\ Variant \in {"countries", "countries_demo", "lab2New"}
    /\ EditButton \in BOOLEAN
    /\ StorageFails \in BOOLEAN
    /\ MaxCountries \in [1..NumContinents -> Nat]

VARIABLES
    phase,              \* "notRunning", "active", "inactive" or "writing"
    allData,            \* the data controller's array, NoData when it is empty
    continentsList,     \* rows of the list screen
    screen,             \* "list", "detail", "add" (modal over detail), "info"
    selectedContinent,  \* row passed by prepare(for:)
    countryList,        \* the detail screen's working copy
    number,             \* the count the info screen was given
    moved,              \* history: has a row of the working copy been moved?
    unread,             \* history: did this process's start fail to read?
    file                \* data.plist

vars == <<phase, allData, continentsList, screen, selectedContinent,
          countryList, number, moved, unread, file>>
screens == <<screen, selectedContinent, countryList, number, moved>>

Absent   == [kind |-> "absent", data |-> NoData]
Torn     == [kind |-> "torn", data |-> NoData]
Plist(d) == [kind |-> "plist", data |-> d]

running == phase # "notRunning"

-----------------------------------------------------------------------------
(* Loading: a torn plist does not decode, and reading a complete one may   *)
(* fail as well; either way the error is caught, viewDidLoad only prints   *)
(* it, and allData stays the empty array.                                  *)

LoadCountries == IF file.kind = "absent" THEN Bundle ELSE file.data

\* These two look for data.plist as well, but read the bundle in any case.
LoadCountriesDemo == Bundle
LoadLab2New       == Bundle

\* Mutant: the countries app also reads the bundle in any case.
loadDataMutant == Bundle

loadData ==
    CASE Variant = "countries"      -> LoadCountries
      [] Variant = "countries_demo" -> LoadCountriesDemo
      [] Variant = "lab2New"        -> LoadLab2New

Init ==
    /\ phase = "notRunning"
    /\ allData = NoData
    /\ continentsList = 0
    /\ screen = "list"
    /\ selectedContinent = 1
    /\ countryList = << >>
    /\ number = 0
    /\ moved = FALSE
    /\ unread = FALSE
    /\ file = Absent

\* What a start may end up with.
readable == {loadData} \cup IF StorageFails THEN {NoData} ELSE {}

\* Mutant: one row too many.
LaunchMutant ==
    /\ ~running
    /\ phase' = "active"
    /\ allData' \in readable
    /\ continentsList' = Len(allData') + 1
    /\ unread' = (allData' # loadData)
    /\ UNCHANGED <<screens, file>>

\* Process start and ViewController.viewDidLoad.
Launch ==
    /\ ~running
    /\ phase' = "active"
    /\ allData' \in readable
    /\ continentsList' = Len(allData')
    /\ unread' = (allData' # loadData)
    /\ UNCHANGED <<screens, file>>

-----------------------------------------------------------------------------
(* Navigation.                                                             *)

getCountries(i) == allData[i]

\* prepare(for: "CountrySegue") and the detail screen's viewWillAppear.
SelectContinent(i) ==
    /\ phase = "active" /\ screen = "list"
    /\ i \in 1..continentsList
    /\ screen' = "detail"
    /\ selectedContinent' = i
    /\ countryList' = getCountries(i)
    /\ moved' = FALSE
    /\ UNCHANGED <<phase, allData, continentsList, number, unread, file>>

\* prepare(for: "ContinentSegue").
ShowInfo(i) ==
    /\ phase = "active" /\ screen = "list"
    /\ i \in 1..continentsList
    /\ screen' = "info"
    /\ selectedContinent' = i
    /\ number' = Len(getCountries(i))
    /\ UNCHANGED <<phase, allData, continentsList, countryList, moved, unread,
                   file>>

Back ==
    /\ phase = "active" /\ screen \in {"detail", "info"}
    /\ screen' = "list"
    /\ UNCHANGED <<phase, allData, continentsList, selectedContinent,
                   countryList, number, moved, unread, file>>

PressAdd ==
    /\ phase = "active" /\ screen = "detail"
    /\ screen' = "add"
    /\ UNCHANGED <<phase, allData, continentsList, selectedContinent,
                   countryList, number, moved, unread, file>>

-----------------------------------------------------------------------------
(* Edits: each handler changes the working copy and the data controller.   *)

\* Mutants: a new country goes to the front; a deletion is not passed on; a
\* deletion also shortens the other lists.
addCountryMutant(data, i, c, at)  == [data EXCEPT ![i] = InsertAt(@, 1, c)]
deleteCountryMutant(data, i, at)  == data
deleteCountryMutant2(data, i, at) ==
    [j \in DOMAIN data |-> RemoveAt(data[j], IF Len(data[j]) < at THEN 1 ELSE at)]

addCountry(data, i, c, at) == [data EXCEPT ![i] = InsertAt(@, at, c)]
deleteCountry(data, i, at) == [data EXCEPT ![i] = RemoveAt(@, at)]

Unchanged == UNCHANGED <<phase, continentsList, selectedContinent, number,
                         unread, file>>

\* unwindSegue "save" with a non-empty name.
SaveCountry(c) ==
    /\ phase = "active" /\ screen = "add"
    /\ Len(countryList) < MaxCountries[selectedContinent]
    /\ screen' = "detail"
    /\ allData' = addCountry(allData, selectedContinent, c, Len(countryList) + 1)
    /\ countryList' = Append(countryList, c)
    /\ UNCHANGED moved
    /\ Unchanged

\* unwindSegue "cancel", or "save" with an empty name.
LeaveAdd ==
    /\ phase = "active" /\ screen = "add"
    /\ screen' = "detail"
    /\ UNCHANGED <<allData, countryList, moved>>
    /\ Unchanged

\* tableView(_:commit:forRowAt:), a swipe on row r.
DeleteRow(r) ==
    /\ phase = "active" /\ screen = "detail"
    /\ countryList' = RemoveAt(countryList, r)
    /\ allData' = deleteCountry(allData, selectedContinent, r)
    /\ UNCHANGED <<screen, moved>>
    /\ Unchanged

Swapped(l, from, to) == [l EXCEPT ![from] = l[to], ![to] = l[from]]

\* tableView(_:moveRowAt:to:): the copy swaps, the controller deletes and adds.
MoveRow(from, to) ==
    /\ EditButton
    /\ phase = "active" /\ screen = "detail"
    /\ countryList' = Swapped(countryList, from, to)
    /\ allData' = addCountry(deleteCountry(allData, selectedContinent, from),
                             selectedContinent, countryList[from], to)
    /\ moved' = TRUE
    /\ UNCHANGED screen
    /\ Unchanged

-----------------------------------------------------------------------------
(* Life cycle.  writeData opens data.plist for writing, which truncates    *)
(* it, and is not atomic; it runs on the main thread inside the            *)
(* willResignActive notification.                                          *)

ResignActive ==
    /\ phase = "active"
    /\ phase' = "writing"
    /\ file' = Torn
    /\ UNCHANGED <<allData, continentsList, screens, unread>>

FinishWrite ==
    /\ phase = "writing"
    /\ phase' = "inactive"
    /\ file' = Plist(allData)
    /\ UNCHANGED <<allData, continentsList, screens, unread>>

\* The end of the process: memory is gone, the file is as it is.
Exit ==
    /\ phase' = "notRunning"
    /\ allData' = NoData
    /\ continentsList' = 0
    /\ screen' = "list" /\ selectedContinent' = 1
    /\ countryList' = << >> /\ number' = 0 /\ moved' = FALSE
    /\ unread' = FALSE

\* Mutant: the old file is already gone when opening for the write fails.
FailOpenMutant ==
    /\ StorageFails
    /\ phase = "active"
    /\ phase' = "inactive"
    /\ file' = Torn
    /\ UNCHANGED <<allData, continentsList, screens, unread>>

\* The write throws.  The selector of a throwing method takes a second, error
\* argument that the notification centre does not pass: storing the error goes
\* nowhere or ends the process.  An error on open leaves the old file.
FailOpen ==
    /\ StorageFails
    /\ phase = "active"
    /\ \/ /\ phase' = "inactive"
          /\ UNCHANGED <<allData, continentsList, screens, unread>>
       \/ Exit
    /\ UNCHANGED file

FailWrite ==
    /\ StorageFails
    /\ phase = "writing"
    /\ \/ /\ phase' = "inactive"
          /\ UNCHANGED <<allData, continentsList, screens, unread>>
       \/ Exit
    /\ UNCHANGED file

BecomeActive ==
    /\ phase = "inactive"
    /\ phase' = "active"
    /\ UNCHANGED <<allData, continentsList, screens, unread, file>>

\* A crash, or the system or the user ending the app.
Kill ==
    /\ running
    /\ phase = "writing" => StorageFails
    /\ Exit
    /\ UNCHANGED file

Next ==
    \/ Launch
    \/ \E i \in 1..NumContinents : SelectContinent(i) \/ ShowInfo(i)
    \/ Back \/ PressAdd \/ LeaveAdd
    \/ \E c \in Country : SaveCountry(c)
    \/ \E r \in 1..Len(countryList) : DeleteRow(r)
    \/ \E from, to \in 1..Len(countryList) : MoveRow(from, to)
    \/ ResignActive \/ FinishWrite \/ FailOpen \/ FailWrite
    \/ BecomeActive \/ Kill

Spec == Init /\ [][Next]_vars
-----------------------------------------------------------------------------
(* Properties.                                                             *)

\* Every variable has its type; the list screen has one row per entry.
TypeOK ==
    /\ phase \in {"notRunning", "active", "inactive", "writing"}
    /\ allData \in Catalog \cup {NoData}
    /\ continentsList \in {0, NumContinents}
    /\ screen \in {"list", "detail", "add", "info"}
    /\ selectedContinent \in 1..NumContinents
    /\ countryList \in Seq(Country)
    /\ number \in Nat
    /\ moved \in BOOLEAN /\ unread \in BOOLEAN
    /\ file \in [kind : {"absent", "torn", "plist"}, data : Catalog \cup {NoData}]
    /\ file.kind # "plist" => file.data = NoData

\* What a screen shows is what the data controller holds, whatever was edited,
\* left and reopened, and however often the app went to the background: the
\* detail screen edits a copy of its own (DetailViewController.countryList),
\* and the info screen shows a count taken when it was opened.  A row that is
\* moved (only with the edit button) breaks it until the screen is reopened.
ScreenMirrorsModel ==
    /\ screen \in {"detail", "add"} /\ ~moved =>
           countryList = allData[selectedContinent]
    /\ screen = "info" => number = Len(allData[selectedContinent])

\* The handlers index the data controller with rows of the working copy
\* (insert at countryList.count, remove at the swiped row); an index outside
\* the array ends the process.  The lengths agree even after a move, which may
\* leave the copy and the controller in different orders.
IndexesInRange ==
    /\ running => continentsList = Len(allData)
    /\ screen # "list" => selectedContinent \in DOMAIN allData
    /\ screen \in {"detail", "add"} =>
           Len(countryList) = Len(allData[selectedContinent])

\* The invariant behind the three: a screen other than the list is open only
\* on a catalogue, and the memory of a process that has ended is empty.
IndInv ==
    /\ TypeOK
    /\ continentsList = IF allData = NoData THEN 0 ELSE NumContinents
    /\ ~running => allData = NoData /\ screen = "list"
    /\ phase = "writing" => file.kind = "torn"
    /\ running /\ allData = NoData /\ ~unread => LoadCountries = NoData
    /\ screen # "list" => allData \in Catalog
    /\ screen \in {"detail", "add"} =>
           Len(countryList) = Len(allData[selectedContinent])
    /\ ScreenMirrorsModel

\* What the next start of the countries app shows; a save that has begun
\* counts as done until something interrupts it.
Kept == IF phase = "writing" THEN allData ELSE LoadCountries

\* The catalogue is lost in two ways only.  A save is cut short or fails after
\* it has opened the file; or the start could not read a file that was whole,
\* and the save at the next resign active writes the empty array over it.  No
\* edit, navigation, crash or restart makes the app lose a catalogue it read.
LossOnlyByFailure ==
    [][Kept # NoData /\ Kept' = NoData
           => \/ phase = "writing" /\ phase' # "writing" /\ file' = Torn
              \/ unread /\ phase = "active" /\ phase' = "writing"]_vars

\* Once the app has started from a lost catalogue it is empty for good: the next
\* resign active writes the empty array over it, and the bundled catalogue is
\* read only when there is no file at all.
Lost == Kept = NoData /\ allData = NoData
LossIsForever == [][Lost => Lost']_vars

\* What there is to say of a catalogue that is lost: how, and for how long.
LossIsRight == LossOnlyByFailure /\ LossIsForever

\* The print and the comments of loadData ("loading from user data!", "load
\* default data if we cant find a user data file"): a start with a complete
\* user file shows the contents of that file.
LoadPrefersUserFile ==
    [][~running /\ running' /\ file.kind = "plist" => allData' = file.data]_vars

\* The app implements the durable catalogue: each start shows what the last
\* save kept, or nothing when it cannot be read, however edits, saves, crashes
\* and restarts interleave.
Durable == INSTANCE DurableCatalog
               WITH Default <- Bundle, Nothing <- NoData,
                    Reliable <- ~StorageFails,
                    open <- running, shown <- allData, kept <- Kept
ImplementsDurableCatalog == Durable!Spec
=============================================================================
