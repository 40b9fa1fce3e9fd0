CONSTANTS
    POWER = POWER
    DIESEL = DIESEL
    AIR = AIR
    STEAM = STEAM
    WATER = WATER
    kwh = kwh
    mwh = mwh
    liters = liters
    bushel = bushel
    canada = "Canada"
    alberta = "Alberta"
    ontario = "Ontario"
    required = "Province Required"
    None = None
    NoPlace = NoPlace
    NoYear = NoYear
    Canada = "Canada"
    ProvinceRequired = "Province Required"
    Electricity = POWER
    Activities <- MCActivities
    Fallback = {DIESEL, AIR}
    CatalogFallback = {DIESEL}
    Tracked = {WATER}
    Fuels = {DIESEL}
    Units <- MCUnits
    Supported = {kwh, mwh, liters}
    KwhPer <- MCKwhPer
    Places <- MCPlaces
    Spellings <- MCSpellings
    Normal <- MCNormal
    Null = "null"
    Blank = ""
    Scale = 100
    Pool <- MCPool
    Records = {1, 2, 3}
    Rows <- MCRows
    Tables <- MCTables
    Catalogues <- MCCatalogues
    Organizations <- MCOrganizations
    Scopes = {{1, 2, 3}, {1, 2}, {}}
    MaxCustom = 1
    MaxEdits = 2
SPECIFICATION Spec
INVARIANTS
    ElectricityStaysLocal
    RoundingIsBounded
    ChoiceIgnoresTheRest
    OfferedIsCalculated
PROPERTIES
    ExplanationHolds
    SummaryHolds
