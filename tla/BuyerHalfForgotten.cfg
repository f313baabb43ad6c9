SPECIFICATION RedactionSpec
CONSTANTS
    Traces <- Approved
    Persons = {{"id", "email"}}
    Courier = {d1}
    MaxDeaths = 1
INVARIANT
    NothingNamesThem
CHECK_DEADLOCK FALSE
