CONSTANTS
    c1 = c1
    c2 = c2
    Country <- MCCountry
    NumContinents = 2
    Bundle <- MCBundle
    Variant = "countries"
    EditButton = TRUE
    StorageFails = TRUE
    MaxCountries <- MCMaxCountries
SPECIFICATION Spec
INVARIANTS
    TypeOK
    ScreenMirrorsModel
    IndexesInRange
PROPERTIES
    LossIsRight
    ImplementsDurableCatalog
