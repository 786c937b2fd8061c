\* Two ranges, two loads on their way at a time.
SPECIFICATION OvSpec
CONSTANTS
    Ranges = {"hour", "day"}
    Line <- MCLine
    Columns <- MCColumns
    Reports <- MCReports
    Offset = 330
    MinMax = 1
    Tids = {1, 2}
INVARIANTS OneTimer ReportOfRange HoverInRange AxisFits
PROPERTY PollingGoesOn
