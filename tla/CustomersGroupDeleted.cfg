SPECIFICATION CustomersSpec
CONSTANTS
    Steward = {p1}
    Group = {g1}
    OtherTag = {}
    Climates = {{}}
    Deeds = {"group", "grouping"}
    MaxDeeds = 2
    MaxShopTurns = 0
INVARIANT
    DeletedGroupPricesNobody
CHECK_DEADLOCK FALSE
