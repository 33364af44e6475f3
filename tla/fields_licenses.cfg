\* Two documents with up to two licences each.
SPECIFICATION FieldsSpec
CONSTANTS
    Null = Null
    Odd = Odd
    Inputs <- TwoLicences
    Width <- Widths
INVARIANTS
    LicensesKeepMeaning
CHECK_DEADLOCK FALSE
