CONSTANTS
    c1 = c1
    c2 = c2
    Country <- MCCountry
    NumContinents = 2
    Bundle <- MCBundle
    Variant = "countries_demo"
    EditButton = FALSE
    StorageFails = FALSE
    MaxCountries <- MCMaxCountries
SPECIFICATION Spec
PROPERTIES
    LoadPrefersUserFile
