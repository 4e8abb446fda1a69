SPECIFICATION UISpec
CONSTANTS
    Operators = {o1, o2}
    Grantable = {c1, c2}
    Mgmt = {m1}
    Settings = {s1}
    Grades = {g1, g2}
    Prefixes = {p1}
    Labels = {l1, l2}
    MaxForms = 3
    Kinds <- MCKinds
    Ranges <- MCRanges
    Filters <- MCFilters
    Start <- MCStart
    Day = 2
    Slack = 1
    MaxLag = 1
    topLineChartApps = 1
    pieFoldAfter = 1
    latencySampleLimit = 1
    recentFailureLimit = 1
    MaxRows = 6
    MaxTime = 5
SYMMETRY Symmetry
INVARIANTS SavedMeansSo NoSilentKeyChange TrailTrue CardsExact
PROPERTIES ManagementKept
CHECK_DEADLOCK FALSE
