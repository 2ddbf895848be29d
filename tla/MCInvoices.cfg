SPECIFICATION Spec
CONSTANTS
    jan = jan
    feb = feb
    Invoices = {i1, i2, i3}
    Periods <- TwoPeriods
    Generated <- OneLineEach
    ManualLines = {m1}
    Amounts = {1}
    Parties = {old, new}
    NoLine = NoLine
    NoParties = NoParties
    NoPdf = NoPdf
    NoNumber = NoNumber
    MaxNumber = 3
SYMMETRY Symmetry
INVARIANTS
    TotalIsSum
    PdfMatchesRows
    NumbersGapless
