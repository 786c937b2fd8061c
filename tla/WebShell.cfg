\* Three pages, one with two sections, a history of three entries and guides
\* of up to four lines.
SPECIFICATION Spec
CONSTANTS
    Pages = {"overview", "help", "settings"}
    Sections <- MCSections
    Addresses <- MCAddresses
    MaxHist = 3
    MaxLines = 4
INVARIANTS AddressNamesPage GuidesWhole
PROPERTY BackReturns
